---- MODULE Spec2Model ----
(***************************************************************************)
(* Model of the fask acoustic modem's framing protocol:                    *)
(*   src/src/lib/protocol.ts   frame encoder (V2, V3), header parser, CRC16 *)
(*   src/src/lib/rxDecoder.ts  RxBitDecoder, the bit-at-a-time frame decoder*)
(* Bit strings ("0"/"1" characters in the source) are sequences over 0..1,  *)
(* byte arrays are sequences over 0..255, a text is the sequence of its     *)
(* Unicode scalar values.                                                   *)
(***************************************************************************)
EXTENDS Integers, Sequences, FiniteSets, TLC

(***************************************************************************)
(* Bounds of the model.                                                     *)
(***************************************************************************)
\* longest text, in characters, drawn from Alphabet
MaxTextLen == 2
\* long texts have COMPRESS_MIN_RAW_BYTES - 1 .. COMPRESS_MIN_RAW_BYTES + LongExtra bytes
LongExtra == 0
\* bits the channel may flip anywhere in a transmission (FeedFlipped)
MaxFlips == 1
\* the channel may flip any of the first PreBurst preamble bits (FeedBurst)
PreBurst == 5
\* the channel may flip any of the first SyncBurst sync bits (FeedBurst)
SyncBurst == 4
\* reset() calls in one run
MaxResets == 1

\* seq arguments of the encoder range over -256 * SeqSpan .. 256 * SeqSpan + 255
SeqSpan == 1

(***************************************************************************)
(* String and number primitives of the JavaScript runtime.                  *)
(***************************************************************************)
\* String.prototype.repeat
RECURSIVE Repeat(_, _)
Repeat(s, n) ==
  IF n <= 0 THEN <<>>
  ELSE IF n = 1 THEN s
  ELSE Repeat(s, n \div 2) \o Repeat(s, n - (n \div 2))

\* String.prototype.slice(from, to) with 0 <= from, 0-based, end exclusive
Slice(s, from, to) ==
  LET e == IF to > Len(s) THEN Len(s) ELSE to
  IN IF from >= e THEN <<>> ELSE SubSeq(s, from + 1, e)

\* String.prototype.slice(-n): the last n characters
SliceLast(s, n) == IF Len(s) <= n THEN s ELSE SubSeq(s, Len(s) - n + 1, Len(s))

\* Number.prototype.toString(2) of a non-negative integer
RECURSIVE ToString2(_)
ToString2(n) == IF n < 2 THEN <<n>> ELSE ToString2(n \div 2) \o <<n % 2>>

\* String.prototype.padStart(width, "0"): pads, never truncates
PadStart(s, width) == Repeat(<<0>>, width - Len(s)) \o s

\* parseInt(bits, 2) of a non-empty string of binary digits
RECURSIVE ParseInt2(_)
ParseInt2(bits) ==
  IF Len(bits) = 0 THEN 0
  ELSE 2 * ParseInt2(SubSeq(bits, 1, Len(bits) - 1)) + bits[Len(bits)]

\* a % b of JavaScript: the remainder takes the sign of the dividend
JsRem(a, b) == IF a >= 0 THEN a % b ELSE 0 - ((0 - a) % b)

\* a ^ b on non-negative integers
RECURSIVE BitXor(_, _)
BitXor(a, b) ==
  IF a = 0 THEN b
  ELSE IF b = 0 THEN a
  ELSE ((a + b) % 2) + 2 * BitXor(a \div 2, b \div 2)

\* a & b on non-negative integers
RECURSIVE BitAnd(_, _)
BitAnd(a, b) ==
  IF a = 0 \/ b = 0 THEN 0
  ELSE ((a % 2) * (b % 2)) + 2 * BitAnd(a \div 2, b \div 2)

\* a | b on non-negative integers
BitOr(a, b) == a + b - BitAnd(a, b)

(***************************************************************************)
(* TextEncoder / TextDecoder (UTF-8, fatal = false, ignoreBOM = false).     *)
(***************************************************************************)
REPLACEMENT_CHAR == 65533
BOM_CHAR == 65279

\* UTF-8 encoding of one Unicode scalar value
Utf8EncodeChar(cp) ==
  IF cp < 128 THEN <<cp>>
  ELSE IF cp < 2048 THEN <<192 + (cp \div 64), 128 + (cp % 64)>>
  ELSE IF cp < 65536 THEN
    <<224 + (cp \div 4096), 128 + ((cp \div 64) % 64), 128 + (cp % 64)>>
  ELSE <<240 + (cp \div 262144), 128 + ((cp \div 4096) % 64),
         128 + ((cp \div 64) % 64), 128 + (cp % 64)>>

\* new TextEncoder().encode(text)
RECURSIVE TextEncode(_)
TextEncode(text) ==
  IF Len(text) = 0 THEN <<>>
  ELSE IF Len(text) = 1 THEN Utf8EncodeChar(text[1])
  ELSE TextEncode(SubSeq(text, 1, Len(text) \div 2))
         \o TextEncode(SubSeq(text, (Len(text) \div 2) + 1, Len(text)))

\* the WHATWG UTF-8 decoder: malformed input yields U+FFFD, it never throws
RECURSIVE Utf8DecodeFrom(_, _, _, _, _, _, _)
Utf8DecodeFrom(bytes, i, cp, needed, seen, lower, upper) ==
  IF i > Len(bytes) THEN (IF needed # 0 THEN <<REPLACEMENT_CHAR>> ELSE <<>>)
  ELSE
    LET b == bytes[i] IN
    IF needed = 0 THEN
      IF b <= 127 THEN <<b>> \o Utf8DecodeFrom(bytes, i + 1, 0, 0, 0, 128, 191)
      ELSE IF b >= 194 /\ b <= 223 THEN
        Utf8DecodeFrom(bytes, i + 1, b % 32, 1, 0, 128, 191)
      ELSE IF b >= 224 /\ b <= 239 THEN
        Utf8DecodeFrom(bytes, i + 1, b % 16, 2, 0,
                       IF b = 224 THEN 160 ELSE 128, IF b = 237 THEN 159 ELSE 191)
      ELSE IF b >= 240 /\ b <= 244 THEN
        Utf8DecodeFrom(bytes, i + 1, b % 8, 3, 0,
                       IF b = 240 THEN 144 ELSE 128, IF b = 244 THEN 143 ELSE 191)
      ELSE <<REPLACEMENT_CHAR>> \o Utf8DecodeFrom(bytes, i + 1, 0, 0, 0, 128, 191)
    ELSE IF b < lower \/ b > upper THEN
      <<REPLACEMENT_CHAR>> \o Utf8DecodeFrom(bytes, i, 0, 0, 0, 128, 191)
    ELSE
      LET cp2 == cp * 64 + (b % 64) IN
      IF seen + 1 = needed
      THEN <<cp2>> \o Utf8DecodeFrom(bytes, i + 1, 0, 0, 0, 128, 191)
      ELSE Utf8DecodeFrom(bytes, i + 1, cp2, needed, seen + 1, 128, 191)

\* new TextDecoder().decode(bytes): a leading byte order mark is dropped
TextDecode(bytes) ==
  IF Len(bytes) >= 3 /\ SubSeq(bytes, 1, 3) = Utf8EncodeChar(BOM_CHAR)
  THEN Utf8DecodeFrom(bytes, 4, 0, 0, 0, 128, 191)
  ELSE Utf8DecodeFrom(bytes, 1, 0, 0, 0, 128, 191)

(***************************************************************************)
(* protocol.ts                                                              *)
(***************************************************************************)
PREAMBLE_BITS_V2 == Repeat(<<0, 1>>, 16)
SYNC_BITS_V2 == Repeat(<<1, 1, 1, 1, 0, 0, 0, 0>>, 2)
SYNC_BITS_V3 == Repeat(<<1, 1, 0, 0, 1, 1, 0, 0>>, 2)

LEN_FLAG_MASK == 32768
\* a length mask one too large
LEN_VALUE_MASK_OffByOne == 32767 + 1

LEN_VALUE_MASK == 32767
COMPRESS_MIN_RAW_BYTES == 24
COMPRESS_MIN_GAIN_BYTES == 2
V3_VERSION_BITS == <<1, 0>>
V3_RESERVED_FLAGS_MASK == 62

\* the value a throwing function "returns"
Threw == [threw |-> TRUE]

RECURSIVE bytesToBitStream(_)
bytesToBitStream(bytes) ==
  IF Len(bytes) = 0 THEN <<>>
  ELSE IF Len(bytes) = 1 THEN PadStart(ToString2(bytes[1]), 8)
  ELSE bytesToBitStream(SubSeq(bytes, 1, Len(bytes) \div 2))
         \o bytesToBitStream(SubSeq(bytes, (Len(bytes) \div 2) + 1, Len(bytes)))

\* throws when the length is no multiple of 8 (callers test that first)
RECURSIVE bitStreamToBytes(_)
bitStreamToBytes(bits) ==
  IF Len(bits) < 8 THEN <<>>
  ELSE IF Len(bits) < 16 THEN <<ParseInt2(Slice(bits, 0, 8))>>
  ELSE LET half == 8 * ((Len(bits) \div 8) \div 2)
       IN bitStreamToBytes(Slice(bits, 0, half))
            \o bitStreamToBytes(Slice(bits, half, Len(bits)))

u8ToBits(n) == IF n < 0 \/ n > 255 THEN Threw ELSE [threw |-> FALSE, bits |-> PadStart(ToString2(n), 8)]

u16ToBits(n) == IF n < 0 \/ n > 65535 THEN Threw ELSE [threw |-> FALSE, bits |-> PadStart(ToString2(n), 16)]

\* pickPayload without the minimum raw length
pickPayload_NoMinimum(raw, compressedCandidate) ==
  LET shouldCompress == Len(compressedCandidate) + COMPRESS_MIN_GAIN_BYTES < Len(raw)
  IN [payload |-> IF shouldCompress THEN compressedCandidate ELSE raw,
      compressed |-> shouldCompress]

\* pickPayload that compresses as soon as the gain reaches COMPRESS_MIN_GAIN_BYTES
pickPayload_WeakGain(raw, compressedCandidate) ==
  LET shouldCompress ==
        /\ Len(raw) >= COMPRESS_MIN_RAW_BYTES
        /\ Len(compressedCandidate) + COMPRESS_MIN_GAIN_BYTES <= Len(raw)
  IN [payload |-> IF shouldCompress THEN compressedCandidate ELSE raw,
      compressed |-> shouldCompress]

\* deflateRaw is the external compressor: its result is the argument compressedCandidate
pickPayload(raw, compressedCandidate) ==
  LET shouldCompress ==
        /\ Len(raw) >= COMPRESS_MIN_RAW_BYTES
        /\ Len(compressedCandidate) + COMPRESS_MIN_GAIN_BYTES < Len(raw)
  IN [payload |-> IF shouldCompress THEN compressedCandidate ELSE raw,
      compressed |-> shouldCompress]

\* parseLenFlagU16 whose range test uses the 15-bit length mask
parseLenFlagU16_RangeOfLength(bits16) ==
  LET value == ParseInt2(bits16)
  IN IF Len(bits16) = 0 \/ value < 0 \/ value > LEN_VALUE_MASK THEN Threw
     ELSE [threw |-> FALSE,
           compressed |-> BitAnd(value, LEN_FLAG_MASK) # 0,
           lenBytes |-> BitAnd(value, LEN_VALUE_MASK)]

\* parseLenFlagU16 that does not mask the flag bit out of the length
parseLenFlagU16_NoMask(bits16) ==
  LET value == ParseInt2(bits16)
  IN IF Len(bits16) = 0 \/ value < 0 \/ value > 65535 THEN Threw
     ELSE [threw |-> FALSE,
           compressed |-> BitAnd(value, LEN_FLAG_MASK) # 0,
           lenBytes |-> value]

parseLenFlagU16(bits16) ==
  LET value == ParseInt2(bits16)
  IN IF Len(bits16) = 0 \/ value < 0 \/ value > 65535 THEN Threw
     ELSE [threw |-> FALSE,
           compressed |-> BitAnd(value, LEN_FLAG_MASK) # 0,
           lenBytes |-> BitAnd(value, LEN_VALUE_MASK)]

\* buildHeaderV3Bits with the sequence and length fields in the opposite order
buildHeaderV3Bits_LengthFirst(compressed, seq, lenBytes) ==
  LET flags == IF compressed THEN 1 ELSE 0
      seqBits == u8ToBits(seq)
      lenBits == u16ToBits(lenBytes)
  IN IF seqBits.threw \/ lenBits.threw THEN Threw
     ELSE [threw |-> FALSE,
           bits |-> V3_VERSION_BITS \o PadStart(ToString2(flags), 6)
                      \o lenBits.bits \o seqBits.bits]

buildHeaderV3Bits(compressed, seq, lenBytes) ==
  LET flags == IF compressed THEN 1 ELSE 0
      seqBits == u8ToBits(seq)
      lenBits == u16ToBits(lenBytes)
  IN IF seqBits.threw \/ lenBits.threw THEN Threw
     ELSE [threw |-> FALSE,
           bits |-> V3_VERSION_BITS \o PadStart(ToString2(flags), 6)
                      \o seqBits.bits \o lenBits.bits]

\* parseHeaderV3 without the test of the reserved flag bits
parseHeaderV3_NoReservedCheck(bits32) ==
  IF Len(bits32) # 32 THEN Threw
  ELSE IF Slice(bits32, 0, 2) # V3_VERSION_BITS THEN Threw
  ELSE
    LET flags == ParseInt2(Slice(bits32, 2, 8))
        seq == ParseInt2(Slice(bits32, 8, 16))
        lenBytes == ParseInt2(Slice(bits32, 16, 32))
    IN IF lenBytes > LEN_VALUE_MASK THEN Threw
       ELSE [threw |-> FALSE, version |-> "v3", flags |-> flags,
             compressed |-> BitAnd(flags, 1) # 0, seq |-> seq, lenBytes |-> lenBytes]

parseHeaderV3(bits32) ==
  IF Len(bits32) # 32 THEN Threw
  ELSE IF Slice(bits32, 0, 2) # V3_VERSION_BITS THEN Threw
  ELSE
    LET flags == ParseInt2(Slice(bits32, 2, 8))
        seq == ParseInt2(Slice(bits32, 8, 16))
        lenBytes == ParseInt2(Slice(bits32, 16, 32))
    IN IF BitAnd(flags, V3_RESERVED_FLAGS_MASK) # 0 THEN Threw
       ELSE IF lenBytes > LEN_VALUE_MASK THEN Threw
       ELSE [threw |-> FALSE, version |-> "v3", flags |-> flags,
             compressed |-> BitAnd(flags, 1) # 0, seq |-> seq, lenBytes |-> lenBytes]

\* the shift with the polynomial of CRC-16/ARC, 0x8005
Crc16Shift_Poly8005(crc) ==
  IF BitAnd(crc, 32768) # 0
  THEN BitXor(crc * 2, 32773) % 65536
  ELSE (crc * 2) % 65536

\* one pass of the inner loop: shift the 16-bit register once
Crc16Shift(crc) ==
  IF BitAnd(crc, 32768) # 0
  THEN BitXor(crc * 2, 4129) % 65536
  ELSE (crc * 2) % 65536

\* the inner loop, b = 0..7, after crc ^= byte << 8
Crc16Byte(crc, byte) ==
  Crc16Shift(Crc16Shift(Crc16Shift(Crc16Shift(
  Crc16Shift(Crc16Shift(Crc16Shift(Crc16Shift(BitXor(crc, byte * 256)))))))))

\* the outer loop over data[i..j], in order: first half, then second half (the
\* test crc < 0 is never true: it makes TLC evaluate the register before going on
\* instead of nesting the whole computation)
RECURSIVE Crc16From(_, _, _, _)
Crc16From(data, i, j, crc) ==
  IF i > j \/ crc < 0 THEN crc
  ELSE IF i = j THEN Crc16Byte(crc, data[i])
  ELSE Crc16From(data, ((i + j) \div 2) + 1, j, Crc16From(data, i, (i + j) \div 2, crc))

crc16CcittFalse(data) == Crc16From(data, 1, Len(data), 65535)

\* calculateV3Crc16Bits over the payload alone
calculateV3Crc16Bits_PayloadOnly(headerBits, payloadBits) ==
  IF Len(headerBits \o payloadBits) % 8 # 0 THEN Threw
  ELSE u16ToBits(crc16CcittFalse(bitStreamToBytes(payloadBits)))

calculateV3Crc16Bits(headerBits, payloadBits) ==
  IF Len(headerBits \o payloadBits) % 8 # 0 THEN Threw
  ELSE u16ToBits(crc16CcittFalse(bitStreamToBytes(headerBits \o payloadBits)))

\* verifyCrc16 that checks the length of the CRC field only
verifyCrc16_LengthOnly(headerBits, payloadBits, crcBits) == Len(crcBits) = 16

\* verifyCrc16 that compares the high byte of the CRC only
verifyCrc16_HighByte(headerBits, payloadBits, crcBits) ==
  IF Len(crcBits) # 16 THEN FALSE
  ELSE LET c == calculateV3Crc16Bits(headerBits, payloadBits)
       IN ~c.threw /\ Slice(c.bits, 0, 8) = Slice(crcBits, 0, 8)

verifyCrc16(headerBits, payloadBits, crcBits) ==
  IF Len(crcBits) # 16 THEN FALSE
  ELSE LET c == calculateV3Crc16Bits(headerBits, payloadBits)
       IN ~c.threw /\ c.bits = crcBits

\* buildFrameBitsV2 that leaves the compressed flag out of the length field
buildFrameBitsV2_NoFlag(text, compressedCandidate) ==
  LET raw == TextEncode(text) IN
  IF Len(raw) > LEN_VALUE_MASK THEN Threw
  ELSE
    LET picked == pickPayload(raw, compressedCandidate) IN
    IF Len(picked.payload) > LEN_VALUE_MASK THEN Threw
    ELSE
      LET lenBits == u16ToBits(Len(picked.payload))
          payloadBits == bytesToBitStream(picked.payload)
      IN IF lenBits.threw THEN Threw
         ELSE [threw |-> FALSE, version |-> "v2",
               bits |-> PREAMBLE_BITS_V2 \o SYNC_BITS_V2 \o lenBits.bits \o payloadBits,
               payloadBits |-> payloadBits, compressed |-> picked.compressed,
               rawBytes |-> Len(raw), txBytes |-> Len(picked.payload)]

buildFrameBitsV2(text, compressedCandidate) ==
  LET raw == TextEncode(text) IN
  IF Len(raw) > LEN_VALUE_MASK THEN Threw
  ELSE
    LET picked == pickPayload(raw, compressedCandidate) IN
    IF Len(picked.payload) > LEN_VALUE_MASK THEN Threw
    ELSE
      LET lenFlag == BitOr(IF picked.compressed THEN LEN_FLAG_MASK ELSE 0, Len(picked.payload))
          lenBits == u16ToBits(lenFlag)
          payloadBits == bytesToBitStream(picked.payload)
      IN IF lenBits.threw THEN Threw
         ELSE [threw |-> FALSE, version |-> "v2",
               bits |-> PREAMBLE_BITS_V2 \o SYNC_BITS_V2 \o lenBits.bits \o payloadBits,
               payloadBits |-> payloadBits, compressed |-> picked.compressed,
               rawBytes |-> Len(raw), txBytes |-> Len(picked.payload)]

\* buildFrameBitsV3 reducing seq with one remainder only
buildFrameBitsV3_OneRemainder(text, seq, compressedCandidate) ==
  LET raw == TextEncode(text) IN
  IF Len(raw) > LEN_VALUE_MASK THEN Threw
  ELSE
    LET picked == pickPayload(raw, compressedCandidate) IN
    IF Len(picked.payload) > LEN_VALUE_MASK THEN Threw
    ELSE
      LET safeSeq == JsRem(seq, 256)
          payloadBits == bytesToBitStream(picked.payload)
          header == buildHeaderV3Bits(picked.compressed, safeSeq, Len(picked.payload))
      IN IF header.threw THEN Threw
         ELSE
           LET crc == calculateV3Crc16Bits(header.bits, payloadBits) IN
           IF crc.threw THEN Threw
           ELSE [threw |-> FALSE, version |-> "v3",
                 bits |-> PREAMBLE_BITS_V2 \o SYNC_BITS_V3 \o header.bits
                            \o payloadBits \o crc.bits,
                 payloadBits |-> payloadBits, compressed |-> picked.compressed,
                 rawBytes |-> Len(raw), txBytes |-> Len(picked.payload),
                 seq |-> safeSeq, crc16 |-> ParseInt2(crc.bits)]

buildFrameBitsV3(text, seq, compressedCandidate) ==
  LET raw == TextEncode(text) IN
  IF Len(raw) > LEN_VALUE_MASK THEN Threw
  ELSE
    LET picked == pickPayload(raw, compressedCandidate) IN
    IF Len(picked.payload) > LEN_VALUE_MASK THEN Threw
    ELSE
      LET safeSeq == JsRem(JsRem(seq, 256) + 256, 256)
          payloadBits == bytesToBitStream(picked.payload)
          header == buildHeaderV3Bits(picked.compressed, safeSeq, Len(picked.payload))
      IN IF header.threw THEN Threw
         ELSE
           LET crc == calculateV3Crc16Bits(header.bits, payloadBits) IN
           IF crc.threw THEN Threw
           ELSE [threw |-> FALSE, version |-> "v3",
                 bits |-> PREAMBLE_BITS_V2 \o SYNC_BITS_V3 \o header.bits
                            \o payloadBits \o crc.bits,
                 payloadBits |-> payloadBits, compressed |-> picked.compressed,
                 rawBytes |-> Len(raw), txBytes |-> Len(picked.payload),
                 seq |-> safeSeq, crc16 |-> ParseInt2(crc.bits)]

(***************************************************************************)
(* rxDecoder.ts                                                             *)
(***************************************************************************)
\* a preamble threshold one match stricter
PREAMBLE_MATCH_MIN_Stricter == 28 + 1

\* a sync tolerance one error tighter
SYNC_MAX_ERRORS_Tighter == 3 - 1

PREAMBLE_MATCH_MIN == 28
\* a sync tolerance of half the distance between the two sync words
SYNC_MAX_ERRORS_Looser == 3 + 1

SYNC_MAX_ERRORS == 3
MAX_PAYLOAD_BYTES == 32767
\* frame.seq of a V2 frame (null in the source)
SEQ_NULL == 0 - 1
\* Number.POSITIVE_INFINITY, as far as distances between 16-bit windows go
POSITIVE_INFINITY == 1000000

flipBit(bit) == IF bit = 1 THEN 0 ELSE 1

\* bits.split("").map(flip).join("")
MapFlip(bits) == [i \in 1..Len(bits) |-> flipBit(bits[i])]

\* an inverted preamble that was not inverted
INVERTED_PREAMBLE_BITS_NotInverted == PREAMBLE_BITS_V2

INVERTED_PREAMBLE_BITS == MapFlip(PREAMBLE_BITS_V2)

countMatches(a, b) ==
  IF Len(a) # Len(b) THEN 0
  ELSE Cardinality({i \in 1..Len(a) : a[i] = b[i]})

hammingDistance(a, b) ==
  IF Len(a) # Len(b) THEN POSITIVE_INFINITY
  ELSE Cardinality({i \in 1..Len(a) : a[i] # b[i]})

Max(a, b) == IF a >= b THEN a ELSE b

\* decodePayload: inflated is what the external inflateRaw returns for the payload
\* bytes (Threw when it throws); TextDecoder never throws
decodePayload(bits, compressed, inflated) ==
  IF Len(bits) % 8 # 0 THEN Threw
  ELSE IF compressed
    THEN (IF inflated.threw THEN Threw
          ELSE [threw |-> FALSE, text |-> TextDecode(inflated.data)])
    ELSE [threw |-> FALSE, text |-> TextDecode(bitStreamToBytes(bits))]

\* private state = { mode: "search_preamble", window: "" }
InitialState == [mode |-> "search_preamble", window |-> <<>>]

InitialStats ==
  [okFrames |-> 0, crcFail |-> 0, lenInvalid |-> 0, decodeFail |-> 0,
   syncLost |-> 0, resyncCount |-> 0, lastError |-> "null"]

\* consumeBit returning null
NullEvent == [kind |-> "null"]

\* what one call of consumeBit leaves behind: the decoder's state and stats, the
\* returned event, and whether decodePayload was called
Outcome(st, sts, ev, dec) ==
  [threw |-> FALSE, state |-> st, stats |-> sts, event |-> ev, decoded |-> dec]

\* consumeBit throwing: nothing is assigned, the caller sees an exception
Thrown(st, sts) ==
  [threw |-> TRUE, state |-> st, stats |-> sts, event |-> [kind |-> "throw"], decoded |-> FALSE]

\* resync that restarts at the sync search instead of the preamble search
resync_ToSearchSync(sts, errorCode, message, dec) ==
  Outcome([mode |-> "search_sync", window |-> <<>>, invert |-> FALSE],
          [sts EXCEPT !.lastError = errorCode,
                      !.resyncCount = @ + 1,
                      !.crcFail = IF errorCode = "crc_fail" THEN @ + 1 ELSE @,
                      !.lenInvalid = IF errorCode = "len_invalid" THEN @ + 1 ELSE @,
                      !.decodeFail = IF errorCode = "decode_fail" THEN @ + 1 ELSE @,
                      !.syncLost = IF errorCode = "sync_lost" THEN @ + 1 ELSE @],
          [kind |-> "error", code |-> errorCode, message |-> message], dec)

\* resync that counts the specific failure but not the resync itself
resync_NoResyncCount(sts, errorCode, message, dec) ==
  Outcome(InitialState,
          [sts EXCEPT !.lastError = errorCode,
                      !.crcFail = IF errorCode = "crc_fail" THEN @ + 1 ELSE @,
                      !.lenInvalid = IF errorCode = "len_invalid" THEN @ + 1 ELSE @,
                      !.decodeFail = IF errorCode = "decode_fail" THEN @ + 1 ELSE @,
                      !.syncLost = IF errorCode = "sync_lost" THEN @ + 1 ELSE @],
          [kind |-> "error", code |-> errorCode, message |-> message], dec)

\* resync that does not record the error code in lastError
resync_KeepsLastError(sts, errorCode, message, dec) ==
  Outcome(InitialState,
          [sts EXCEPT !.resyncCount = @ + 1,
                      !.crcFail = IF errorCode = "crc_fail" THEN @ + 1 ELSE @,
                      !.lenInvalid = IF errorCode = "len_invalid" THEN @ + 1 ELSE @,
                      !.decodeFail = IF errorCode = "decode_fail" THEN @ + 1 ELSE @,
                      !.syncLost = IF errorCode = "sync_lost" THEN @ + 1 ELSE @],
          [kind |-> "error", code |-> errorCode, message |-> message], dec)

resync(sts, errorCode, message, dec) ==
  LET counted ==
        [sts EXCEPT !.lastError = errorCode,
                    !.resyncCount = @ + 1,
                    !.crcFail = IF errorCode = "crc_fail" THEN @ + 1 ELSE @,
                    !.lenInvalid = IF errorCode = "len_invalid" THEN @ + 1 ELSE @,
                    !.decodeFail = IF errorCode = "decode_fail" THEN @ + 1 ELSE @,
                    !.syncLost = IF errorCode = "sync_lost" THEN @ + 1 ELSE @]
  IN Outcome(InitialState, counted,
             [kind |-> "error", code |-> errorCode, message |-> message], dec)

pushWindow(window, maxLen, nextBit) == SliceLast(window \o <<nextBit>>, maxLen)

SearchPreamble(st, sts, rawBit) ==
  LET w == pushWindow(st.window, Len(PREAMBLE_BITS_V2), rawBit)
      normalMatches == countMatches(w, PREAMBLE_BITS_V2)
      invertedMatches == countMatches(w, INVERTED_PREAMBLE_BITS)
  IN IF /\ Len(w) = Len(PREAMBLE_BITS_V2)
        /\ (normalMatches >= PREAMBLE_MATCH_MIN \/ invertedMatches >= PREAMBLE_MATCH_MIN)
     THEN Outcome([mode |-> "search_sync", window |-> <<>>,
                   invert |-> invertedMatches > normalMatches], sts,
                  [kind |-> "status", message |-> "preamble ok",
                   best |-> Max(normalMatches, invertedMatches)], FALSE)
     ELSE Outcome([mode |-> "search_preamble", window |-> w], sts, NullEvent, FALSE)

\* the distance to the V2 sync word that search_sync compares with
SyncV2Errors(w, allowFallback) ==
  IF allowFallback THEN hammingDistance(w, SYNC_BITS_V2) ELSE POSITIVE_INFINITY

\* search_sync that forgets the polarity when it finds the sync word
SearchSync_DropsInvert(st, sts, allowFallback, bit) ==
  LET w == pushWindow(st.window, Len(SYNC_BITS_V3), bit)
      v3Errors == hammingDistance(w, SYNC_BITS_V3)
      v2Errors == SyncV2Errors(w, allowFallback)
  IN IF Len(w) # Len(SYNC_BITS_V3)
     THEN Outcome([mode |-> "search_sync", window |-> w, invert |-> st.invert],
                  sts, NullEvent, FALSE)
     ELSE IF v3Errors <= SYNC_MAX_ERRORS /\ v3Errors <= v2Errors
     THEN Outcome([mode |-> "read_v3_header", bits |-> <<>>, invert |-> FALSE], sts,
                  [kind |-> "status", message |-> "sync v3 ok", err |-> v3Errors], FALSE)
     ELSE IF v2Errors <= SYNC_MAX_ERRORS
     THEN Outcome([mode |-> "read_v2_len", bits |-> <<>>, invert |-> FALSE], sts,
                  [kind |-> "status", message |-> "sync v2 ok", err |-> v2Errors], FALSE)
     ELSE Outcome([mode |-> "search_sync", window |-> w, invert |-> st.invert],
                  sts, NullEvent, FALSE)

SearchSync(st, sts, allowFallback, bit) ==
  LET w == pushWindow(st.window, Len(SYNC_BITS_V3), bit)
      v3Errors == hammingDistance(w, SYNC_BITS_V3)
      v2Errors == SyncV2Errors(w, allowFallback)
  IN IF Len(w) # Len(SYNC_BITS_V3)
     THEN Outcome([mode |-> "search_sync", window |-> w, invert |-> st.invert],
                  sts, NullEvent, FALSE)
     ELSE IF v3Errors <= SYNC_MAX_ERRORS /\ v3Errors <= v2Errors
     THEN Outcome([mode |-> "read_v3_header", bits |-> <<>>, invert |-> st.invert], sts,
                  [kind |-> "status", message |-> "sync v3 ok", err |-> v3Errors], FALSE)
     ELSE IF v2Errors <= SYNC_MAX_ERRORS
     THEN Outcome([mode |-> "read_v2_len", bits |-> <<>>, invert |-> st.invert], sts,
                  [kind |-> "status", message |-> "sync v2 ok", err |-> v2Errors], FALSE)
     ELSE Outcome([mode |-> "search_sync", window |-> w, invert |-> st.invert],
                  sts, NullEvent, FALSE)

ReadV3Header(st, sts, bit) ==
  LET bits == st.bits \o <<bit>>
      parsed == parseHeaderV3(bits)
  IN IF Len(bits) < 32
     THEN Outcome([mode |-> "read_v3_header", bits |-> bits, invert |-> st.invert],
                  sts, NullEvent, FALSE)
     ELSE IF parsed.threw
     THEN resync(sts, "len_invalid", "invalid V3 header, resync...", FALSE)
     ELSE IF parsed.lenBytes > MAX_PAYLOAD_BYTES
     THEN resync(sts, "len_invalid", "invalid V3 len, resync...", FALSE)
     ELSE Outcome([mode |-> "read_v3_payload", headerBits |-> bits,
                   lenBytes |-> parsed.lenBytes, compressed |-> parsed.compressed,
                   seq |-> parsed.seq, bits |-> <<>>, invert |-> st.invert], sts,
                  [kind |-> "status", message |-> "v3 len", lenBytes |-> parsed.lenBytes,
                   seq |-> parsed.seq, compressed |-> parsed.compressed], FALSE)

\* read_v3_payload that goes back to search_preamble when the payload is complete
ReadV3Payload_SkipsCrc(st, sts, bit) ==
  LET needBits == st.lenBytes * 8
      bits == st.bits \o <<bit>>
  IN IF Len(bits) < needBits
     THEN Outcome([st EXCEPT !.bits = bits], sts, NullEvent, FALSE)
     ELSE Outcome(InitialState, sts,
                  [kind |-> "status", message |-> "payload done, read crc..."], FALSE)

ReadV3Payload(st, sts, bit) ==
  LET needBits == st.lenBytes * 8
      bits == st.bits \o <<bit>>
  IN IF Len(bits) < needBits
     THEN Outcome([st EXCEPT !.bits = bits], sts, NullEvent, FALSE)
     ELSE Outcome([mode |-> "read_v3_crc", headerBits |-> st.headerBits,
                   payloadBits |-> Slice(bits, 0, needBits),
                   compressed |-> st.compressed, seq |-> st.seq, bits |-> <<>>,
                   invert |-> st.invert], sts,
                  [kind |-> "status", message |-> "payload done, read crc..."], FALSE)

\* read_v3_crc that returns the frame without counting it
ReadV3Crc_NoCount(st, sts, bit, inflated) ==
  LET bits == st.bits \o <<bit>>
      crcBits == Slice(bits, 0, 16)
      decoded == decodePayload(st.payloadBits, st.compressed, inflated)
  IN IF Len(bits) < 16
     THEN Outcome([st EXCEPT !.bits = bits], sts, NullEvent, FALSE)
     ELSE IF ~verifyCrc16(st.headerBits, st.payloadBits, crcBits)
     THEN resync(sts, "crc_fail", "crc mismatch, resync...", FALSE)
     ELSE IF decoded.threw
     THEN resync(sts, "decode_fail", "decode error, resync...", TRUE)
     ELSE Outcome(InitialState, sts,
                  [kind |-> "frame",
                   frame |-> [text |-> decoded.text, version |-> "v3",
                              compressed |-> st.compressed,
                              lenBytes |-> Len(st.payloadBits) \div 8, seq |-> st.seq],
                   message |-> "DONE v3. back to preamble search."], TRUE)

\* read_v3_crc that decodes the payload before it compares the CRC
ReadV3Crc_DecodesFirst(st, sts, bit, inflated) ==
  LET bits == st.bits \o <<bit>>
      crcBits == Slice(bits, 0, 16)
      decoded == decodePayload(st.payloadBits, st.compressed, inflated)
  IN IF Len(bits) < 16
     THEN Outcome([st EXCEPT !.bits = bits], sts, NullEvent, FALSE)
     ELSE IF decoded.threw
     THEN resync(sts, "decode_fail", "decode error, resync...", TRUE)
     ELSE IF ~verifyCrc16(st.headerBits, st.payloadBits, crcBits)
     THEN resync(sts, "crc_fail", "crc mismatch, resync...", FALSE)
     ELSE Outcome(InitialState, [sts EXCEPT !.okFrames = @ + 1],
                  [kind |-> "frame",
                   frame |-> [text |-> decoded.text, version |-> "v3",
                              compressed |-> st.compressed,
                              lenBytes |-> Len(st.payloadBits) \div 8, seq |-> st.seq],
                   message |-> "DONE v3. back to preamble search."], TRUE)

ReadV3Crc(st, sts, bit, inflated) ==
  LET bits == st.bits \o <<bit>>
      crcBits == Slice(bits, 0, 16)
      decoded == decodePayload(st.payloadBits, st.compressed, inflated)
  IN IF Len(bits) < 16
     THEN Outcome([st EXCEPT !.bits = bits], sts, NullEvent, FALSE)
     ELSE IF ~verifyCrc16(st.headerBits, st.payloadBits, crcBits)
     THEN resync(sts, "crc_fail", "crc mismatch, resync...", FALSE)
     ELSE IF decoded.threw
     THEN resync(sts, "decode_fail", "decode error, resync...", TRUE)
     ELSE Outcome(InitialState, [sts EXCEPT !.okFrames = @ + 1],
                  [kind |-> "frame",
                   frame |-> [text |-> decoded.text, version |-> "v3",
                              compressed |-> st.compressed,
                              lenBytes |-> Len(st.payloadBits) \div 8, seq |-> st.seq],
                   message |-> "DONE v3. back to preamble search."], TRUE)

ReadV2Len(st, sts, bit) ==
  LET bits == st.bits \o <<bit>>
      parsed == parseLenFlagU16(bits)
  IN IF Len(bits) < 16
     THEN Outcome([mode |-> "read_v2_len", bits |-> bits, invert |-> st.invert],
                  sts, NullEvent, FALSE)
     ELSE IF parsed.threw
     THEN Thrown(st, sts)
     ELSE IF parsed.lenBytes > MAX_PAYLOAD_BYTES
     THEN resync(sts, "len_invalid", "invalid V2 len, resync...", FALSE)
     ELSE Outcome([mode |-> "read_v2_payload", lenBytes |-> parsed.lenBytes,
                   compressed |-> parsed.compressed, bits |-> <<>>,
                   invert |-> st.invert], sts,
                  [kind |-> "status", message |-> "v2 len", lenBytes |-> parsed.lenBytes,
                   compressed |-> parsed.compressed], FALSE)

ReadV2Payload(st, sts, bit, inflated) ==
  LET needBits == st.lenBytes * 8
      bits == st.bits \o <<bit>>
      decoded == decodePayload(Slice(bits, 0, needBits), st.compressed, inflated)
  IN IF Len(bits) < needBits
     THEN Outcome([st EXCEPT !.bits = bits], sts, NullEvent, FALSE)
     ELSE IF decoded.threw
     THEN resync(sts, "decode_fail", "decode error, resync...", TRUE)
     ELSE Outcome(InitialState, [sts EXCEPT !.okFrames = @ + 1],
                  [kind |-> "frame",
                   frame |-> [text |-> decoded.text, version |-> "v2",
                              compressed |-> st.compressed, lenBytes |-> st.lenBytes,
                              seq |-> SEQ_NULL],
                   message |-> "DONE v2. back to preamble search."], TRUE)

\* inflateRaw of pako, the external decompressor: it inverts deflateRaw on the bytes
\* the compressor produced (zlib.deflated for zlib.raw); on any other input it
\* throws or returns some bytes, zlib.other
inflateRaw(bytes, zlib) ==
  IF bytes = zlib.deflated THEN [threw |-> FALSE, data |-> zlib.raw] ELSE zlib.other

\* consumeBit without the branch for read_v2_payload
consumeBit_NoV2PayloadBranch(st, sts, allowFallback, rawBit, zlib) ==
  IF st.mode = "search_preamble" THEN SearchPreamble(st, sts, rawBit)
  ELSE
    LET bit == IF st.invert THEN flipBit(rawBit) ELSE rawBit IN
    CASE st.mode = "search_sync" -> SearchSync(st, sts, allowFallback, bit)
      [] st.mode = "read_v3_header" -> ReadV3Header(st, sts, bit)
      [] st.mode = "read_v3_payload" -> ReadV3Payload(st, sts, bit)
      [] st.mode = "read_v3_crc" ->
           ReadV3Crc(st, sts, bit, inflateRaw(bitStreamToBytes(st.payloadBits), zlib))
      [] st.mode = "read_v2_len" -> ReadV2Len(st, sts, bit)
      [] OTHER -> resync(sts, "sync_lost", "unexpected decoder state, resync...", FALSE)

\* consumeBit(rawBit)
consumeBit(st, sts, allowFallback, rawBit, zlib) ==
  IF st.mode = "search_preamble" THEN SearchPreamble(st, sts, rawBit)
  ELSE
    LET bit == IF st.invert THEN flipBit(rawBit) ELSE rawBit IN
    CASE st.mode = "search_sync" -> SearchSync(st, sts, allowFallback, bit)
      [] st.mode = "read_v3_header" -> ReadV3Header(st, sts, bit)
      [] st.mode = "read_v3_payload" -> ReadV3Payload(st, sts, bit)
      [] st.mode = "read_v3_crc" ->
           ReadV3Crc(st, sts, bit, inflateRaw(bitStreamToBytes(st.payloadBits), zlib))
      [] st.mode = "read_v2_len" -> ReadV2Len(st, sts, bit)
      [] st.mode = "read_v2_payload" ->
           ReadV2Payload(st, sts, bit,
             inflateRaw(bitStreamToBytes(Slice(st.bits \o <<bit>>, 0, st.lenBytes * 8)), zlib))
      [] OTHER -> resync(sts, "sync_lost", "unexpected decoder state, resync...", FALSE)

(***************************************************************************)
(* The transmissions and the channel.                                       *)
(***************************************************************************)
\* characters of 1, 2, 3 and 4 UTF-8 bytes: "L", e-acute, U+FEFF, an emoji
Alphabet == {76, 233, 65279, 128512}

TextsUpTo(n) == UNION {[1..k -> Alphabet] : k \in 0..n}

\* texts at the compression threshold of pickPayload
LongTexts ==
  {Repeat(<<76>>, n) :
     n \in (COMPRESS_MIN_RAW_BYTES - 1)..(COMPRESS_MIN_RAW_BYTES + LongExtra)}

\* "AL" U+0300 NUL NUL U+0001 "$d" U+000B: its UTF-8 bytes hold a V3 sync word
\* (one bit off), a V3 header, one payload byte and the matching CRC16
CraftedTexts == {<<65, 76, 768, 0, 0, 1, 36, 100, 11>>}

Texts == TextsUpTo(MaxTextLen) \cup LongTexts \cup CraftedTexts

Seqs == {0, 19, 255}

\* the results deflateRaw may return for raw: below the threshold one candidate
\* longer than raw, at the threshold candidates on both sides of the gain test
CandidateLens(rawLen) ==
  IF rawLen < COMPRESS_MIN_RAW_BYTES - 1 THEN {rawLen + 2}
  ELSE {1, rawLen - COMPRESS_MIN_GAIN_BYTES - 1, rawLen - COMPRESS_MIN_GAIN_BYTES}

Candidates(raw) == {Repeat(<<75>>, n) : n \in CandidateLens(Len(raw))}

\* what inflateRaw may do with bytes the compressor never produced
InflateOutcomes ==
  {Threw, [threw |-> FALSE, data |-> <<76>>], [threw |-> FALSE, data |-> <<255>>]}

\* one transmission: the arguments of buildFrameBitsV2 / buildFrameBitsV3, the
\* compressor's result for the text, the frame built, and the line polarity
Transmission(version, text, seq, cand, inverted) ==
  [version |-> version, text |-> text, seq |-> seq, inverted |-> inverted,
   raw |-> TextEncode(text), deflated |-> cand,
   frame |-> IF version = "v3" THEN buildFrameBitsV3(text, seq, cand)
                               ELSE buildFrameBitsV2(text, cand)]

\* every text with every result the compressor may return for it
Pairs(texts) == UNION {{<<t, c>> : c \in Candidates(TextEncode(t))} : t \in texts}

Transmissions(pairs, seqs, polarities) ==
  UNION {{Transmission("v3", q[1], s, q[2], p) : s \in seqs, p \in polarities}
           \cup {Transmission("v2", q[1], SEQ_NULL, q[2], p) : p \in polarities} :
         q \in pairs}

\* the bits on the line
Line(t) == IF t.inverted THEN MapFlip(t.frame.bits) ELSE t.frame.bits

\* new RxBitDecoder(input): input?.allowV2Fallback ?? false, the argument being
\* absent ("undefined") or { allowV2Fallback: true | false }
Options == {"undefined", "false", "true"}

\* a constructor whose fallback option defaults to true
NewAllowV2Fallback_DefaultOn(input) == input # "false"

NewAllowV2Fallback(input) == IF input = "undefined" THEN FALSE ELSE input = "true"

VARIABLES
  options,          \* the argument the decoder was constructed with
  allowV2Fallback,  \* RxBitDecoder.allowV2Fallback (readonly)
  state,            \* RxBitDecoder.state
  stats,            \* RxBitDecoder.stats
  op,               \* the last call made on the decoder: "new", "consumeBit", "reset"
  rawBit,           \* the argument of the last consumeBit
  event,            \* what the last consumeBit returned
  log,              \* the frame and error events returned so far, in order
  decodeCalls,      \* how many times decodePayload was called
  tx,               \* the transmission
  tape,             \* the bits sent, Line(tx)
  pos,              \* how many bits of the tape the decoder has consumed
  flipped,          \* the positions of the tape that scattered noise flipped
  resets,           \* reset() calls so far
  before,           \* what the line carried before the frame of tx
  crcLoop,          \* the locals of a running crc16CcittFalse: data, i, b, crc
  tsProfile,        \* RxPage: the symbol period profile
  running,          \* RxPage: running
  currentTime,      \* RxPage: the clock, in milliseconds
  lastSampleAt,     \* RxPage: lastSampleAtRef.current
  lastUiUpdateAt,   \* RxPage: lastUiUpdateAtRef.current
  lastBit,          \* RxPage: lastBit
  td,               \* RxPage: tdRef.current, the newest symbol window
  metrics,          \* RxPage: metrics
  diagnosis,        \* RxPage: diagnosis
  rxBits,           \* RxPage: the bits handed to consumeBit by the loop, in order
  ticks             \* RxPage: how many times the loop ran

\* the state of the receive page
pageVars == <<tsProfile, running, currentTime, lastSampleAt, lastUiUpdateAt, lastBit, td,
              metrics, diagnosis, rxBits, ticks>>

vars == <<options, allowV2Fallback, state, stats, op, rawBit, event, log, decodeCalls,
          tx, tape, pos, flipped, resets, before, crcLoop, pageVars>>

\* nothing was on the line before the frame
NothingBefore == [kind |-> "nothing", bits |-> <<>>]

\* no crc16CcittFalse is running
NoCrcLoop == [pc |-> "idle"]

\* metrics before the first measurement (null in the source)
NoMetrics == [rmsDb |-> "null"]

\* the receive page as mounted, before startRx
PageMounted ==
  /\ tsProfile = "balanced"
  /\ running = FALSE
  /\ currentTime = 0
  /\ lastSampleAt = 0
  /\ lastUiUpdateAt = 0
  /\ lastBit = ""
  /\ td = <<>>
  /\ metrics = NoMetrics
  /\ diagnosis = "no_input"
  /\ rxBits = <<>>
  /\ ticks = 0

InitWith(transmissions) ==
  /\ options \in Options
  /\ allowV2Fallback = NewAllowV2Fallback(options)
  /\ state = InitialState
  /\ stats = InitialStats
  /\ op = "new"
  /\ rawBit = 0
  /\ event = NullEvent
  /\ log = <<>>
  /\ decodeCalls = 0
  /\ tx \in {t \in transmissions : ~t.frame.threw}
  /\ tape = Line(tx)
  /\ pos = 0
  /\ flipped = {}
  /\ resets = 0
  /\ before = NothingBefore
  /\ crcLoop = NoCrcLoop
  /\ PageMounted

\* the states in which consumeBit may call inflateRaw
Inflates(st) == st.mode \in {"read_v3_crc", "read_v2_payload"} /\ st.compressed

\* the transmission whose frame the next bit of the tape belongs to
OnLine ==
  IF before.kind \in {"frame", "inverted_frame"} /\ pos < Len(before.bits) THEN before ELSE tx

\* one call consumeBit(b) by the receive loop
Consume(b) ==
  \E other \in IF Inflates(state) THEN InflateOutcomes ELSE {Threw} :
    \E out \in {consumeBit(state, stats, allowV2Fallback, b,
                           [raw |-> OnLine.raw, deflated |-> OnLine.deflated,
                            other |-> other])} :
       /\ state' = out.state
       /\ stats' = out.stats
       /\ event' = out.event
       /\ log' = IF out.event.kind \in {"frame", "error", "throw"}
                 THEN Append(log, out.event) ELSE log
       /\ decodeCalls' = decodeCalls + (IF out.decoded THEN 1 ELSE 0)
       /\ op' = "consumeBit"
       /\ rawBit' = b
       /\ pos' = pos + 1
       /\ UNCHANGED <<options, allowV2Fallback, tx, tape, resets, before, crcLoop, pageVars>>

\* the next bit arrives as sent
Feed ==
  /\ pos < Len(tape)
  /\ Consume(tape[pos + 1])
  /\ UNCHANGED flipped

\* positions of the header, payload and CRC of the frame
AfterSync(p) == p > Len(PREAMBLE_BITS_V2) + Len(SYNC_BITS_V3)

\* the next bit arrives flipped: scattered noise after the sync word
FeedFlipped ==
  /\ pos < Len(tape)
  /\ AfterSync(pos + 1)
  /\ Cardinality(flipped) < MaxFlips
  /\ Consume(flipBit(tape[pos + 1]))
  /\ flipped' = flipped \cup {pos + 1}

\* the positions a burst may hit: the head of the preamble and of the sync word
BurstPositions ==
  (1..PreBurst) \cup ((Len(PREAMBLE_BITS_V2) + 1)..(Len(PREAMBLE_BITS_V2) + SyncBurst))

\* the next bit arrives flipped: a burst on the preamble or the sync word
FeedBurst ==
  /\ pos < Len(tape)
  /\ pos + 1 \in BurstPositions
  /\ Consume(flipBit(tape[pos + 1]))
  /\ UNCHANGED flipped

\* reset() that also clears the stats
Reset_ClearsStats ==
  /\ resets < MaxResets
  /\ state' = InitialState
  /\ stats' = InitialStats
  /\ op' = "reset"
  /\ event' = NullEvent
  /\ resets' = resets + 1
  /\ UNCHANGED <<options, allowV2Fallback, rawBit, log, decodeCalls, tx, tape, pos, flipped,
                 before, crcLoop, pageVars>>

\* reset() that leaves a preamble search as it is
Reset_KeepsWindow ==
  /\ resets < MaxResets
  /\ state' = IF state.mode = "search_preamble" THEN state ELSE InitialState
  /\ op' = "reset"
  /\ event' = NullEvent
  /\ resets' = resets + 1
  /\ UNCHANGED <<options, allowV2Fallback, stats, rawBit, log, decodeCalls, tx, tape, pos,
                 flipped, before, crcLoop, pageVars>>

\* reset()
Reset ==
  /\ resets < MaxResets
  /\ state' = InitialState
  /\ op' = "reset"
  /\ event' = NullEvent
  /\ resets' = resets + 1
  /\ UNCHANGED <<options, allowV2Fallback, stats, rawBit, log, decodeCalls, tx, tape, pos,
                 flipped, before, crcLoop, pageVars>>

(***************************************************************************)
(* Specifications.                                                          *)
(***************************************************************************)
\* every text, sent as built, over a clean line
Init == InitWith(Transmissions(Pairs(Texts), Seqs, {FALSE}))
Next == Feed
Spec == Init /\ [][Next]_vars

\* short frames for the noisy lines: the empty text, a one-byte and a two-byte text,
\* and a text at the compression threshold that the compressor shrinks to one byte
NoisyPairs ==
  {<<<<>>, <<75, 75>>>>, <<<<76>>, <<75, 75, 75>>>>, <<<<233>>, <<75, 75, 75, 75>>>>,
   <<Repeat(<<76>>, COMPRESS_MIN_RAW_BYTES), <<75>>>>}

\* scattered bit flips in the header, the payload and the CRC
InitFlip == InitWith(Transmissions(NoisyPairs, {19}, BOOLEAN))
NextFlip == Feed \/ FeedFlipped
SpecFlip == InitFlip /\ [][NextFlip]_vars

\* either polarity, bursts on the preamble and the sync word, reset() at any time
InitBurst == InitWith(Transmissions(NoisyPairs, {19}, BOOLEAN))
NextBurst == Feed \/ FeedBurst \/ Reset
SpecBurst == InitBurst /\ [][NextBurst]_vars

(***************************************************************************)
(* The encoder alone: buildFrameBitsV2(text) and buildFrameBitsV3(text, seq) *)
(* called on short texts, texts at the compression threshold and texts at    *)
(* the size limit, with any integer seq.                                     *)
(***************************************************************************)
\* texts of LEN_VALUE_MASK and LEN_VALUE_MASK + 1 bytes, of 1-byte characters and
\* of 4-byte characters (the second with a 3-byte character at the end)
HugeTexts ==
  {Repeat(<<76>>, LEN_VALUE_MASK),
   Repeat(<<76>>, LEN_VALUE_MASK + 1),
   Repeat(<<128512>>, (LEN_VALUE_MASK \div 4)) \o <<65279>>,
   Repeat(<<128512>>, (LEN_VALUE_MASK \div 4) + 1)}

\* the compressor's result for a huge text: one byte, too long to gain, or longer
\* than the text (deflate stores incompressible input with 5 bytes of framing)
HugePairs ==
  UNION {{<<t, Repeat(<<75>>, n)>> :
            n \in {1, Len(TextEncode(t)) - COMPRESS_MIN_GAIN_BYTES,
                   Len(TextEncode(t)) + 5}} : t \in HugeTexts}

EncodeSeqs == (0 - 256 * SeqSpan)..(256 * SeqSpan + 255)

\* the frame of a call that has not been made yet
NotBuilt == [threw |-> FALSE, version |-> "none"]

\* the arguments of one call of the encoder, with the compressor's result
EncodeRequest(version, text, seq, cand) ==
  [version |-> version, text |-> text, seq |-> seq, inverted |-> FALSE,
   raw |-> TextEncode(text), deflated |-> cand, frame |-> NotBuilt]

EncodeRequests ==
  {EncodeRequest("v3", q[1], s, q[2]) : q \in Pairs(TextsUpTo(1)), s \in EncodeSeqs}
    \cup {EncodeRequest("v3", q[1], 19, q[2]) : q \in Pairs(LongTexts) \cup HugePairs}
    \cup {EncodeRequest("v2", q[1], SEQ_NULL, q[2]) :
             q \in Pairs(TextsUpTo(1)) \cup Pairs(LongTexts) \cup HugePairs}

InitEncode ==
  /\ options = "undefined"
  /\ allowV2Fallback = NewAllowV2Fallback(options)
  /\ state = InitialState
  /\ stats = InitialStats
  /\ op = "new"
  /\ rawBit = 0
  /\ event = NullEvent
  /\ log = <<>>
  /\ decodeCalls = 0
  /\ tx \in EncodeRequests
  /\ tape = <<>>
  /\ pos = 0
  /\ flipped = {}
  /\ resets = 0
  /\ before = NothingBefore
  /\ crcLoop = NoCrcLoop
  /\ PageMounted

\* buildFrameBitsV2(text)
BuildV2 ==
  /\ op = "new"
  /\ tx.version = "v2"
  /\ tx.frame = NotBuilt
  /\ tx' = [tx EXCEPT !.frame = buildFrameBitsV2(tx.text, tx.deflated)]
  /\ op' = "buildFrameBitsV2"
  /\ UNCHANGED <<options, allowV2Fallback, state, stats, rawBit, event, log, decodeCalls,
                 tape, pos, flipped, resets, before, crcLoop, pageVars>>

\* buildFrameBitsV3(text, seq)
BuildV3 ==
  /\ op = "new"
  /\ tx.version = "v3"
  /\ tx.frame = NotBuilt
  /\ tx' = [tx EXCEPT !.frame = buildFrameBitsV3(tx.text, tx.seq, tx.deflated)]
  /\ op' = "buildFrameBitsV3"
  /\ UNCHANGED <<options, allowV2Fallback, state, stats, rawBit, event, log, decodeCalls,
                 tape, pos, flipped, resets, before, crcLoop, pageVars>>

NextEncode == BuildV2 \/ BuildV3
SpecEncode == InitEncode /\ [][NextEncode]_vars

\* crc16CcittFalse, one step of its loops at a time, called on the UTF-8 bytes of a
\* text or, by calculateV3Crc16Bits, on the header and payload of a V3 frame
CrcMaxLen == 2

\* "123456789"
CheckText == <<49, 50, 51, 52, 53, 54, 55, 56, 57>>

\* bitStreamToBytes(`${headerBits}${payloadBits}`) for the frame buildFrameBitsV3 builds
V3CrcInput(text, seq, compressedCandidate) ==
  LET picked == pickPayload(TextEncode(text), compressedCandidate)
      safeSeq == JsRem(JsRem(seq, 256) + 256, 256)
      header == buildHeaderV3Bits(picked.compressed, safeSeq, Len(picked.payload))
  IN bitStreamToBytes(header.bits \o bytesToBitStream(picked.payload))

CrcRequests ==
  {EncodeRequest("v3", q[1], 19, q[2]) : q \in Pairs(TextsUpTo(1))}
    \cup {EncodeRequest("bytes", t, SEQ_NULL, <<>>) :
             t \in TextsUpTo(CrcMaxLen) \cup {CheckText}}

InitCrc ==
  /\ options = "undefined"
  /\ allowV2Fallback = NewAllowV2Fallback(options)
  /\ state = InitialState
  /\ stats = InitialStats
  /\ op = "new"
  /\ rawBit = 0
  /\ event = NullEvent
  /\ log = <<>>
  /\ decodeCalls = 0
  /\ tx \in CrcRequests
  /\ tape = <<>>
  /\ pos = 0
  /\ flipped = {}
  /\ resets = 0
  /\ before = NothingBefore
  /\ crcLoop = NoCrcLoop
  /\ PageMounted

crcUnchanged ==
  UNCHANGED <<options, allowV2Fallback, state, stats, rawBit, event, log, decodeCalls,
              tx, tape, pos, flipped, resets, before, pageVars>>

\* let crc = 0xffff, and i = 0
CrcEnter ==
  /\ crcLoop = NoCrcLoop
  /\ crcLoop' = [pc |-> "for_i",
                 data |-> IF tx.version = "v3"
                          THEN V3CrcInput(tx.text, tx.seq, tx.deflated) ELSE tx.raw,
                 i |-> 0, b |-> 0, crc |-> 65535]
  /\ op' = "crc16CcittFalse"
  /\ crcUnchanged

\* crc ^= data[i] << 8, and b = 0
CrcXorByte ==
  /\ crcLoop.pc = "for_i"
  /\ crcLoop.i < Len(crcLoop.data)
  /\ crcLoop' = [crcLoop EXCEPT !.pc = "for_b", !.b = 0,
                   !.crc = BitXor(crcLoop.crc, crcLoop.data[crcLoop.i + 1] * 256)]
  /\ UNCHANGED op
  /\ crcUnchanged

\* one pass of the inner loop and b++; after the eighth, i++
CrcShiftBit ==
  /\ crcLoop.pc = "for_b"
  /\ crcLoop.b < 8
  /\ crcLoop' = [crcLoop EXCEPT !.crc = Crc16Shift(crcLoop.crc),
                   !.b = crcLoop.b + 1,
                   !.i = IF crcLoop.b + 1 = 8 THEN crcLoop.i + 1 ELSE crcLoop.i,
                   !.pc = IF crcLoop.b + 1 = 8 THEN "for_i" ELSE "for_b"]
  /\ UNCHANGED op
  /\ crcUnchanged

\* return crc
CrcReturn ==
  /\ crcLoop.pc = "for_i"
  /\ crcLoop.i >= Len(crcLoop.data)
  /\ crcLoop' = [crcLoop EXCEPT !.pc = "returned"]
  /\ UNCHANGED op
  /\ crcUnchanged

NextCrc == CrcEnter \/ CrcXorByte \/ CrcShiftBit \/ CrcReturn
SpecCrc == InitCrc /\ [][NextCrc]_vars

(***************************************************************************)
(* RxPage.tsx: the receive loop.  The clock counts milliseconds; levels in   *)
(* dB and the ratio snr are kept in tenths; a symbol window is its four      *)
(* quarters, each the in-phase amplitude it adds at f0 and at f1.            *)
(***************************************************************************)
MaxTicks == 3

TS_PROFILES == {"safe", "balanced", "fast"}

TS_PROFILE_MS(profile) ==
  CASE profile = "safe" -> 120
    [] profile = "balanced" -> 80
    [] OTHER -> 60

\* getTsSec, in milliseconds
getTsSec(profile) == TS_PROFILE_MS(profile)

UI_UPDATE_MS == 100

\* the sum of the sample-by-sample recurrence over the window: the amplitudes of the
\* quarters add up, and the power is the square of the sum
RECURSIVE SumAmplitude(_, _, _)
SumAmplitude(samples, tone, n) ==
  IF n = 0 THEN 0 ELSE SumAmplitude(samples, tone, n - 1) + samples[n][tone + 1]

\* goertzelPower(samples, sampleRate, targetHz), targetHz being f0 (tone 0) or f1 (tone 1)
goertzelPower(samples, tone) ==
  SumAmplitude(samples, tone, Len(samples)) * SumAmplitude(samples, tone, Len(samples))

\* Math.max(p0, p1) / (Math.min(p0, p1) + EPS) in tenths, rounded down; EPS, 1e-12,
\* only matters when the smaller power is 0
SnrOf(p0, p1) ==
  LET hi == IF p0 >= p1 THEN p0 ELSE p1
      lo == IF p0 >= p1 THEN p1 ELSE p0
  IN IF hi = 0 THEN 0
     ELSE IF lo = 0 THEN POSITIVE_INFINITY
     ELSE (10 * hi) \div lo

\* diagnoseSignal without the test of the input level
diagnoseSignal_NoRmsCheck(m) ==
  IF m.snr < 12 /\ m.toneDeltaDb < 80 THEN "ambient_noise"
  ELSE IF m.snr >= 12 /\ m.toneDeltaDb >= 80 THEN "likely_fsk"
  ELSE "mismatch_freq_or_timing"

diagnoseSignal(m) ==
  IF m.rmsDb < 0 - 580 THEN "no_input"
  ELSE IF m.rmsDb >= 0 - 580 /\ m.snr < 12 /\ m.toneDeltaDb < 80 THEN "ambient_noise"
  ELSE IF m.snr >= 12 /\ m.toneDeltaDb >= 80 THEN "likely_fsk"
  ELSE "mismatch_freq_or_timing"

\* a time reference that is set to now
NextSampleAt_ReAnchor(now, last, Ts) == now

\* const steps = Math.floor((now - last) / Ts); last += steps * Ts
NextSampleAt(now, last, Ts) == last + ((now - last) \div Ts) * Ts

\* symbol windows: silence, a steady f0, a steady f1, both tones at the same level,
\* f1 with a weak f0 in the last quarter, f1 with a strong f0 in the last quarter
Windows ==
  {<<<<0, 0>>, <<0, 0>>, <<0, 0>>, <<0, 0>>>>,
   <<<<2, 0>>, <<2, 0>>, <<2, 0>>, <<2, 0>>>>,
   <<<<0, 2>>, <<0, 2>>, <<0, 2>>, <<0, 2>>>>,
   <<<<1, 1>>, <<1, 1>>, <<1, 1>>, <<1, 1>>>>,
   <<<<0, 1>>, <<0, 1>>, <<0, 1>>, <<1, 0>>>>,
   <<<<0, 1>>, <<0, 1>>, <<0, 1>>, <<4, 0>>>>}

\* computeRmsDb(td) on either side of -58 dB
RmsLevels == {0 - 581, 0 - 580}

\* calcToneDeltaDb(fd, ...) on either side of 8 dB
ToneDeltas == {79, 80}

\* the time between two runs of the loop: a display frame, a symbol period of the
\* fast profile, a stall
Delays == {17, 60, 250}

\* ctx.currentTime when startRx reads it
StartTimes == {0, 40}

InitPage ==
  /\ options = "undefined"
  /\ allowV2Fallback = NewAllowV2Fallback(options)
  /\ state = InitialState
  /\ stats = InitialStats
  /\ op = "new"
  /\ rawBit = 0
  /\ event = NullEvent
  /\ log = <<>>
  /\ decodeCalls = 0
  /\ tx = EncodeRequest("none", <<>>, SEQ_NULL, <<>>)
  /\ tape = <<>>
  /\ pos = 0
  /\ flipped = {}
  /\ resets = 0
  /\ before = NothingBefore
  /\ crcLoop = NoCrcLoop
  /\ tsProfile \in TS_PROFILES
  /\ running = FALSE
  /\ currentTime = 0
  /\ lastSampleAt = 0
  /\ lastUiUpdateAt = 0
  /\ lastBit = ""
  /\ td = <<>>
  /\ metrics = NoMetrics
  /\ diagnosis = "no_input"
  /\ rxBits = <<>>
  /\ ticks = 0

pageUnchanged ==
  UNCHANGED <<options, allowV2Fallback, state, stats, op, rawBit, event, log, decodeCalls,
              tx, tape, pos, flipped, resets, before, crcLoop, tsProfile>>

\* startRx()
startRx ==
  /\ ~running
  /\ \E t \in StartTimes : currentTime' = t
  /\ lastBit' = ""
  /\ metrics' = NoMetrics
  /\ diagnosis' = "no_input"
  /\ rxBits' = <<>>
  /\ lastSampleAt' = currentTime'
  /\ lastUiUpdateAt' = 0
  /\ running' = TRUE
  /\ UNCHANGED <<td, ticks>>
  /\ pageUnchanged

\* one run of loop
loop ==
  /\ running
  /\ ticks < MaxTicks
  /\ \E delay \in Delays, samples \in Windows, rmsDb \in RmsLevels, toneDeltaDb \in ToneDeltas :
       LET now == currentTime + delay
           Ts == getTsSec(tsProfile)
           p0 == goertzelPower(samples, 0)
           p1 == goertzelPower(samples, 1)
           nextMetrics == [rmsDb |-> rmsDb, p0 |-> p0, p1 |-> p1, snr |-> SnrOf(p0, p1),
                           toneDeltaDb |-> toneDeltaDb]
           bit == IF p1 > p0 THEN 1 ELSE 0
       IN /\ currentTime' = now
          /\ td' = samples
          /\ IF now - lastSampleAt >= Ts
             THEN /\ lastSampleAt' = NextSampleAt(now, lastSampleAt, Ts)
                  /\ lastBit' = (IF bit = 1 THEN "1" ELSE "0")
                  /\ rxBits' = Append(rxBits, bit)
             ELSE UNCHANGED <<lastSampleAt, lastBit, rxBits>>
          /\ IF now - lastUiUpdateAt >= UI_UPDATE_MS
             THEN /\ lastUiUpdateAt' = now
                  /\ metrics' = nextMetrics
                  /\ diagnosis' = diagnoseSignal(nextMetrics)
             ELSE UNCHANGED <<lastUiUpdateAt, metrics, diagnosis>>
  /\ ticks' = ticks + 1
  /\ UNCHANGED running
  /\ pageUnchanged

NextPage == startRx \/ loop
SpecPage == InitPage /\ [][NextPage]_vars

(***************************************************************************)
(* The decoder inside a stream: a V3 frame that follows another V3 frame or *)
(* stray bits.                                                              *)
(***************************************************************************)
MaxNoiseLen == 2

\* short texts, and one that is sent compressed
StreamPairs ==
  Pairs(TextsUpTo(1)) \cup {<<Repeat(<<76>>, COMPRESS_MIN_RAW_BYTES), <<75>>>>}

\* a frame sent right before the frame of tx
FrameBefore(t) ==
  [kind |-> IF t.inverted THEN "inverted_frame" ELSE "frame", bits |-> Line(t),
   text |-> t.text, seq |-> t.seq, raw |-> t.raw, deflated |-> t.deflated]

\* stray bits before the frame of tx: they are too few, or too far from the preamble,
\* to take the decoder out of search_preamble
StrayBits ==
  UNION {[1..n -> {0, 1}] : n \in 1..MaxNoiseLen}
    \cup {Repeat(<<0>>, Len(PREAMBLE_BITS_V2) + 8), SubSeq(PREAMBLE_BITS_V2, 1, 20)}

NoiseBefore(bits) ==
  [kind |-> "noise", bits |-> bits, text |-> <<>>, seq |-> SEQ_NULL, raw |-> <<>>,
   deflated |-> <<>>]

InitStream ==
  /\ options \in {"undefined", "true"}
  /\ allowV2Fallback = NewAllowV2Fallback(options)
  /\ state = InitialState
  /\ stats = InitialStats
  /\ op = "new"
  /\ rawBit = 0
  /\ event = NullEvent
  /\ log = <<>>
  /\ decodeCalls = 0
  /\ tx \in {Transmission("v3", q[1], 19, q[2], FALSE) : q \in StreamPairs}
  /\ before \in {FrameBefore(Transmission("v3", q[1], sq, q[2], FALSE)) :
                    q \in StreamPairs, sq \in {0, 255}}
                  \cup {FrameBefore(Transmission("v3", q[1], 0, q[2], TRUE)) :
                          q \in StreamPairs}
                  \cup {NoiseBefore(bits) : bits \in StrayBits}
  /\ tape = before.bits \o Line(tx)
  /\ pos = 0
  /\ flipped = {}
  /\ resets = 0
  /\ crcLoop = NoCrcLoop
  /\ PageMounted

NextStream == Feed
SpecStream == InitStream /\ [][NextStream]_vars

(***************************************************************************)
(* Observations used by the properties.                                     *)
(***************************************************************************)
IsFrame(e) == e.kind = "frame"
IsError(e) == e.kind = "error"
Frames == SelectSeq(log, IsFrame)
Errors == SelectSeq(log, IsError)

\* the whole transmission has been fed
AllFed == pos = Len(tape)

\* no failure counter has moved
NoFailure ==
  /\ stats.crcFail = 0 /\ stats.lenInvalid = 0 /\ stats.decodeFail = 0
  /\ stats.syncLost = 0 /\ stats.resyncCount = 0

\* the positions of the tape that carry the payload of a V3 frame
V3PayloadPositions == 81..(80 + 8 * tx.frame.txBytes)

\* the bit the decoder works with on this step, polarity undone
CorrectedBit == IF state.invert THEN 1 - rawBit' ELSE rawBit'

\* the number of positions in which two equally long bit strings differ
Differ(a, b) == Cardinality({i \in 1..Len(a) : a[i] # b[i]})

(***************************************************************************)
(* C1. V3 round trip: once all bits of buildFrameBitsV3(T, S).bits have been *)
(* fed to a fresh decoder, exactly one frame event was returned, with        *)
(* text = T, version = v3 and seq = S, okFrames = 1 and every failure        *)
(* counter and resyncCount are 0.                                            *)
(***************************************************************************)
C1_RoundTripV3 ==
  (tx.version = "v3" /\ AllFed) =>
    /\ Len(Frames) = 1
    /\ Frames[1].frame.text = tx.text
    /\ Frames[1].frame.version = "v3"
    /\ Frames[1].frame.seq = tx.seq
    /\ stats.okFrames = 1
    /\ NoFailure

(***************************************************************************)
(* C2. CRC sensitivity: a V3 frame with a non-empty payload, fed with        *)
(* exactly one payload bit flipped, yields an error event crc_fail and no    *)
(* frame event; afterwards crcFail = 1, resyncCount = 1, decodeFail = 0,     *)
(* lenInvalid = 0 and okFrames = 0.                                          *)
(***************************************************************************)
C2_OnePayloadBitFlipped ==
  /\ tx.version = "v3"
  /\ tx.frame.txBytes > 0
  /\ AllFed
  /\ Cardinality(flipped) = 1
  /\ flipped \subseteq V3PayloadPositions

C2_CrcSensitivity ==
  C2_OnePayloadBitFlipped =>
    /\ \E i \in 1..Len(Errors) : Errors[i].code = "crc_fail"
    /\ Len(Frames) = 0
    /\ stats.crcFail = 1
    /\ stats.resyncCount = 1
    /\ stats.decodeFail = 0
    /\ stats.lenInvalid = 0
    /\ stats.okFrames = 0

C2_Witness == C2_OnePayloadBitFlipped /\ stats.crcFail = 1 /\ tx.frame.compressed

(***************************************************************************)
(* C3. A v3 frame event is returned only by the step that completes the CRC  *)
(* field and only when the CRC16 of the received header and payload bits     *)
(* equals the received CRC bits; when they differ that step returns the      *)
(* error crc_fail, decodePayload is not called and okFrames is unchanged.    *)
(***************************************************************************)
C3_CompletesCrc == state.mode = "read_v3_crc" /\ Len(state.bits) = 15 /\ op' = "consumeBit"

C3_ReceivedCrcMatches ==
  crc16CcittFalse(bitStreamToBytes(state.headerBits \o state.payloadBits))
    = ParseInt2(state.bits \o <<CorrectedBit>>)

C3_CrcGate ==
  [][/\ (event'.kind = "frame" /\ event'.frame.version = "v3")
          => (C3_CompletesCrc /\ C3_ReceivedCrcMatches)
     /\ (C3_CompletesCrc /\ ~C3_ReceivedCrcMatches)
          => /\ event'.kind = "error"
             /\ event'.code = "crc_fail"
             /\ decodeCalls' = decodeCalls
             /\ stats'.okFrames = stats.okFrames]_vars

C3_Witness ==
  /\ tx.version = "v3"
  /\ event.kind = "error"
  /\ event.code = "crc_fail"
  /\ decodeCalls = 0
  /\ \E p \in flipped : p > 80 + 8 * tx.frame.txBytes

(***************************************************************************)
(* C4. Strict V3-only decoding: feeding the bits of              *)
(* buildFrameBitsV2(T).bits to a decoder with allowV2Fallback = false never  *)
(* produces a frame event, and okFrames stays 0.                             *)
(***************************************************************************)
C4_StrictFedV2 == tx.version = "v2" /\ ~allowV2Fallback

C4_StrictNoFrame == C4_StrictFedV2 => (Len(Frames) = 0 /\ stats.okFrames = 0)

C6_RoundTripV2 ==
  (tx.version = "v2" /\ allowV2Fallback /\ AllFed) =>
    /\ Len(Frames) = 1
    /\ Frames[1].frame.version = "v2"
    /\ Frames[1].frame.text = tx.text
    /\ Frames[1].frame.seq = SEQ_NULL
    /\ Frames[1].frame.compressed = tx.frame.compressed
    /\ Frames[1].frame.lenBytes = tx.frame.txBytes
    /\ stats.okFrames = 1
    /\ stats.resyncCount = 0

(***************************************************************************)
(* C7. Preamble tolerance: a bit consumed in search_preamble that makes the  *)
(* window 32 bits long, or any later bit, moves the decoder to search_sync   *)
(* with an empty window exactly when the last 32 raw bits agree with         *)
(* 01 x 16 or with its complement in at least 28 positions; otherwise the    *)
(* decoder stays in search_preamble. The invert flag is true exactly when    *)
(* the complement agrees in strictly more positions.                         *)
(***************************************************************************)
C7_Last32 == SliceLast(state.window \o <<rawBit'>>, 32)

\* the preamble has 0 at the odd positions (counted from 1) and 1 at the even ones
C7_Agree == Cardinality({i \in 1..Len(C7_Last32) : C7_Last32[i] = (i + 1) % 2})
C7_AgreeComplement == Cardinality({i \in 1..Len(C7_Last32) : C7_Last32[i] = i % 2})

C7_PreambleTolerance ==
  [][(state.mode = "search_preamble" /\ op' = "consumeBit") =>
       IF Len(C7_Last32) = 32 /\ (C7_Agree >= 28 \/ C7_AgreeComplement >= 28)
       THEN state' = [mode |-> "search_sync", window |-> <<>>,
                      invert |-> C7_AgreeComplement > C7_Agree]
       ELSE state'.mode = "search_preamble"]_vars

C7_Witness ==
  /\ op = "consumeBit"
  /\ event.kind = "status"
  /\ event.message = "preamble ok"
  /\ event.best = 28
  /\ state.invert

(***************************************************************************)
(* C8. V3 sync tolerance: a bit consumed in search_sync that leaves a full   *)
(* 16-bit window within Hamming distance 3 of 11001100 x 2 moves the decoder *)
(* to read_v3_header, with fallback enabled or disabled.                     *)
(***************************************************************************)
C8_Window == SliceLast(state.window \o <<CorrectedBit>>, 16)

C8_SyncV3Tolerance ==
  [][(/\ state.mode = "search_sync"
      /\ op' = "consumeBit"
      /\ Len(C8_Window) = 16
      /\ Differ(C8_Window, <<1, 1, 0, 0, 1, 1, 0, 0, 1, 1, 0, 0, 1, 1, 0, 0>>) <= 3)
       => state' = [mode |-> "read_v3_header", bits |-> <<>>, invert |-> state.invert]]_vars

C8_Witness ==
  /\ allowV2Fallback
  /\ state.mode = "read_v3_header"
  /\ event.kind = "status"
  /\ event.message = "sync v3 ok"
  /\ event.err = 3

(***************************************************************************)
(* C9. V2 sync tolerance: with fallback enabled, search_sync moves to        *)
(* read_v2_len only when the 16-bit window is within Hamming                 *)
(* distance 2 of 11110000 x 2; a full window at distance 3 or more from it   *)
(* and not within 3 of the V3 sync word keeps the decoder in search_sync.    *)
(***************************************************************************)
C9_DistanceV2 == Differ(C8_Window, <<1, 1, 1, 1, 0, 0, 0, 0, 1, 1, 1, 1, 0, 0, 0, 0>>)
C9_DistanceV3 == Differ(C8_Window, <<1, 1, 0, 0, 1, 1, 0, 0, 1, 1, 0, 0, 1, 1, 0, 0>>)

C9_SyncV2Tolerance ==
  [][(/\ state.mode = "search_sync"
      /\ op' = "consumeBit"
      /\ allowV2Fallback
      /\ Len(C8_Window) = 16)
       => /\ state'.mode = "read_v2_len" => C9_DistanceV2 <= 2
          /\ (C9_DistanceV2 >= 3 /\ C9_DistanceV3 > 3) => state'.mode = "search_sync"]_vars

(***************************************************************************)
(* C10. V3 header validation: the 32nd header bit either returns the error   *)
(* len_invalid, adds 1 to lenInvalid and to resyncCount and leaves the       *)
(* decoder in search_preamble with an empty window (when the version bits    *)
(* are not 10, a reserved flag bit is 1 or the length field exceeds 32767),  *)
(* or moves to read_v3_payload with exactly the parsed lenBytes, compressed  *)
(* flag and seq. consumeBit never throws and read_v3_header never holds 32   *)
(* bits.                                                                     *)
(***************************************************************************)
C10_Header == state.bits \o <<CorrectedBit>>

C10_Invalid ==
  \/ SubSeq(C10_Header, 1, 2) # <<1, 0>>
  \/ \E i \in 3..7 : C10_Header[i] = 1
  \/ ParseInt2(SubSeq(C10_Header, 17, 32)) > 32767

C10_HeaderValidation ==
  /\ [][(state.mode = "read_v3_header" /\ Len(state.bits) = 31 /\ op' = "consumeBit") =>
          /\ event'.kind # "throw"
          /\ IF C10_Invalid
             THEN /\ event'.kind = "error"
                  /\ event'.code = "len_invalid"
                  /\ stats'.lenInvalid = stats.lenInvalid + 1
                  /\ stats'.resyncCount = stats.resyncCount + 1
                  /\ state' = [mode |-> "search_preamble", window |-> <<>>]
             ELSE state' = [mode |-> "read_v3_payload", headerBits |-> C10_Header,
                            lenBytes |-> ParseInt2(SubSeq(C10_Header, 17, 32)),
                            compressed |-> C10_Header[8] = 1,
                            seq |-> ParseInt2(SubSeq(C10_Header, 9, 16)),
                            bits |-> <<>>, invert |-> state.invert]]_vars
  /\ [](state.mode = "read_v3_header" => Len(state.bits) < 32)

C10_Witness ==
  /\ event.kind = "error"
  /\ event.code = "len_invalid"
  /\ stats.lenInvalid = 1
  /\ \E p \in flipped : p \in 51..55

(***************************************************************************)
(* C11. Idempotent resync: right after a step that returns an error event    *)
(* the decoder's state is the initial state of a fresh decoder (mode         *)
(* search_preamble, empty window, no invert flag), so for either next bit it *)
(* returns the event and takes the state a fresh decoder with the same       *)
(* fallback option would; the accumulated stats are kept.                    *)
(***************************************************************************)
C11_NoInflate == [raw |-> tx.raw, deflated |-> tx.deflated, other |-> Threw]

C11_IdempotentResync ==
  [][(op' = "consumeBit" /\ event'.kind = "error") =>
       /\ state' = [mode |-> "search_preamble", window |-> <<>>]
       /\ stats'.okFrames = stats.okFrames
       /\ stats'.resyncCount = stats.resyncCount + 1
       /\ \A b \in {0, 1} :
            LET resynced == consumeBit(state', stats', allowV2Fallback, b, C11_NoInflate)
                fresh == consumeBit(InitialState, InitialStats, allowV2Fallback, b,
                                    C11_NoInflate)
            IN /\ resynced.event = fresh.event
               /\ resynced.state = fresh.state
               /\ resynced.stats = stats']_vars

C11_Witness ==
  /\ op = "consumeBit"
  /\ event.kind = "error"
  /\ event.code = "decode_fail"
  /\ state = InitialState
  /\ stats.resyncCount = 1

(***************************************************************************)
(* C12. Resync accounting: a consumeBit step that returns an error event     *)
(* with code c adds 1 to resyncCount and to the one counter of c, sets       *)
(* lastError to c and leaves okFrames and the other counters unchanged; a    *)
(* step that returns null or a status event changes no field of the stats.   *)
(***************************************************************************)
C12_Counted(c) ==
  [okFrames |-> stats.okFrames,
   crcFail |-> stats.crcFail + (IF c = "crc_fail" THEN 1 ELSE 0),
   lenInvalid |-> stats.lenInvalid + (IF c = "len_invalid" THEN 1 ELSE 0),
   decodeFail |-> stats.decodeFail + (IF c = "decode_fail" THEN 1 ELSE 0),
   syncLost |-> stats.syncLost + (IF c = "sync_lost" THEN 1 ELSE 0),
   resyncCount |-> stats.resyncCount + 1,
   lastError |-> c]

C12_ResyncAccounting ==
  [][op' = "consumeBit" =>
       /\ event'.kind = "error" =>
            /\ event'.code \in {"crc_fail", "len_invalid", "decode_fail", "sync_lost"}
            /\ stats' = C12_Counted(event'.code)
       /\ event'.kind \in {"null", "status"} => stats' = stats]_vars

C12_Witness ==
  /\ op = "consumeBit"
  /\ event.kind = "error"
  /\ event.code = "crc_fail"
  /\ stats = [okFrames |-> 0, crcFail |-> 1, lenInvalid |-> 0, decodeFail |-> 0,
              syncLost |-> 0, resyncCount |-> 1, lastError |-> "crc_fail"]

(***************************************************************************)
(* C13. Terminal success: a consumeBit step that returns a frame event adds  *)
(* 1 to okFrames, leaves resyncCount, the failure counters and lastError     *)
(* unchanged and leaves the decoder in search_preamble with an empty window; *)
(* okFrames changes on no other step. The event's seq is the header's seq    *)
(* for v3 and null for v2, its lenBytes and compressed flag are those parsed *)
(* from the received header.                                                 *)
(***************************************************************************)
C13_FromHeader ==
  IF event'.frame.version = "v3"
  THEN /\ state.mode = "read_v3_crc"
       /\ event'.frame.seq = ParseInt2(SubSeq(state.headerBits, 9, 16))
       /\ event'.frame.lenBytes = ParseInt2(SubSeq(state.headerBits, 17, 32))
       /\ event'.frame.compressed = (state.headerBits[8] = 1)
  ELSE /\ event'.frame.version = "v2"
       /\ state.mode = "read_v2_payload"
       /\ event'.frame.seq = SEQ_NULL
       /\ event'.frame.lenBytes = state.lenBytes
       /\ event'.frame.compressed = state.compressed

C13_TerminalSuccess ==
  [][IF op' = "consumeBit" /\ event'.kind = "frame"
     THEN /\ stats' = [stats EXCEPT !.okFrames = @ + 1]
          /\ state' = [mode |-> "search_preamble", window |-> <<>>]
          /\ C13_FromHeader
     ELSE stats'.okFrames = stats.okFrames]_vars

C13_Witness ==
  /\ op = "consumeBit"
  /\ event.kind = "frame"
  /\ event.frame.version = "v3"
  /\ event.frame.compressed
  /\ event.frame.seq = 19
  /\ stats.okFrames = 1
  /\ state = InitialState

(***************************************************************************)
(* C14. Stats monotonicity: over any sequence of consumeBit and reset calls  *)
(* none of okFrames, crcFail, lenInvalid, decodeFail, syncLost, resyncCount  *)
(* ever decreases; each changes by steps of +1 only.                         *)
(***************************************************************************)
C14_Counters ==
  {"okFrames", "crcFail", "lenInvalid", "decodeFail", "syncLost", "resyncCount"}

C14_StatsMonotone ==
  [][\A k \in C14_Counters : stats'[k] = stats[k] \/ stats'[k] = stats[k] + 1]_vars

C14_Witness ==
  /\ op = "reset"
  /\ state = InitialState
  /\ stats.okFrames + stats.resyncCount >= 1

C16_NoSyncLost ==
  /\ stats.syncLost = 0
  /\ stats.lastError # "sync_lost"
  /\ \A i \in 1..Len(Errors) : Errors[i].code # "sync_lost"

C16_Witness ==
  /\ resets = 1
  /\ AllFed
  /\ stats.okFrames = 1
  /\ Frames[1].frame.version = "v2"

(***************************************************************************)
(* C17. Polarity independence: a decoder fed X and a decoder with the same   *)
(* fallback option fed the complement of X return the same events at the     *)
(* same positions and end with the same stats. Step by step: the two         *)
(* decoders are in states that differ in polarity only (complemented         *)
(* preamble window, opposite invert flag), and from such a pair of states    *)
(* a bit and its complement give the same event, the same stats and again    *)
(* states that differ in polarity only.                                      *)
(***************************************************************************)
C17_Complement(st) ==
  IF st.mode = "search_preamble"
  THEN [st EXCEPT !.window = [i \in 1..Len(st.window) |-> 1 - st.window[i]]]
  ELSE [st EXCEPT !.invert = ~st.invert]

C17_PolarityIndependence ==
  [][op' = "consumeBit" =>
       \E other \in IF Inflates(state) THEN InflateOutcomes ELSE {Threw} :
         LET mirror == consumeBit(C17_Complement(state), stats, allowV2Fallback,
                                  1 - rawBit',
                                  [raw |-> tx.raw, deflated |-> tx.deflated,
                                   other |-> other])
         IN /\ mirror.event = event'
            /\ mirror.stats = stats'
            /\ mirror.state = C17_Complement(state')]_vars

C17_Witness ==
  /\ tx.inverted
  /\ tx.version = "v3"
  /\ AllFed
  /\ Len(Frames) = 1
  /\ Frames[1].frame.text = tx.text
  /\ Frames[1].frame.seq = tx.seq

(***************************************************************************)
(* C18. Compression policy: for raw bytes of length r and a compressed       *)
(* candidate of length c, the encoder (V2 and V3) transmits the candidate    *)
(* with compressed = true if and only if r >= 24 and c + 2 < r; otherwise it *)
(* transmits the raw bytes with compressed = false. No payload shorter than  *)
(* 24 raw bytes is compressed, whatever the compressor returns.              *)
(***************************************************************************)
Built == op \in {"buildFrameBitsV2", "buildFrameBitsV3"} /\ ~tx.frame.threw

C18_ShouldCompress == Len(tx.raw) >= 24 /\ Len(tx.deflated) + 2 < Len(tx.raw)

\* the compressed flag as transmitted: bit 15 of the V2 length field, bit 0 of the V3 flags
C18_FlagOnWire == IF tx.version = "v2" THEN tx.frame.bits[49] ELSE tx.frame.bits[56]

C18_CompressionPolicy ==
  Built =>
    /\ tx.frame.compressed = C18_ShouldCompress
    /\ C18_FlagOnWire = (IF C18_ShouldCompress THEN 1 ELSE 0)
    /\ bitStreamToBytes(tx.frame.payloadBits)
         = (IF C18_ShouldCompress THEN tx.deflated ELSE tx.raw)
    /\ Len(tx.raw) < 24 => ~tx.frame.compressed

C18_Witness ==
  /\ Built
  /\ Len(tx.raw) = 24
  /\ Len(tx.deflated) = 22
  /\ ~tx.frame.compressed

(***************************************************************************)
(* C19. Encode-time size limit: buildFrameBitsV2 and buildFrameBitsV3 throw  *)
(* and return no frame if and only if the UTF-8 byte length of the text      *)
(* exceeds 32767 (seq an integer); the length is never clamped: a returned   *)
(* frame carries its whole payload, its length field is txBytes, and         *)
(* txBytes <= 32767.                                                         *)
(***************************************************************************)
\* UTF-8 byte length: 1 byte per character, one more from U+0080, U+0800 and U+10000 on
C19_Utf8Length ==
  Len(tx.text)
    + Cardinality({i \in 1..Len(tx.text) : tx.text[i] >= 128})
    + Cardinality({i \in 1..Len(tx.text) : tx.text[i] >= 2048})
    + Cardinality({i \in 1..Len(tx.text) : tx.text[i] >= 65536})

C19_LengthField ==
  IF tx.version = "v2" THEN ParseInt2(SubSeq(tx.frame.bits, 50, 64))
  ELSE ParseInt2(SubSeq(tx.frame.bits, 65, 80))

C19_SizeLimit ==
  op \in {"buildFrameBitsV2", "buildFrameBitsV3"} =>
    /\ tx.frame.threw <=> C19_Utf8Length > 32767
    /\ ~tx.frame.threw =>
         /\ tx.frame.txBytes <= 32767
         /\ tx.frame.rawBytes = C19_Utf8Length
         /\ Len(tx.frame.payloadBits) = 8 * tx.frame.txBytes
         /\ C19_LengthField = tx.frame.txBytes
         /\ ~tx.frame.compressed => tx.frame.txBytes = C19_Utf8Length

C19_Witness ==
  /\ op = "buildFrameBitsV2"
  /\ tx.frame.threw
  /\ Len(tx.text) = 8192
  /\ C19_Utf8Length = 32768

(***************************************************************************)
(* C20. Sequence reduction: for every integer seq, negative or 256 and more  *)
(* included, buildFrameBitsV3 writes in header bits 8..15 the value of       *)
(* seq mod 256 in 0..255 and returns that value as frame.seq; it never       *)
(* writes a seq outside 0..255 and never fails because of seq.               *)
(***************************************************************************)
C20_SequenceReduction ==
  op = "buildFrameBitsV3" =>
    /\ tx.frame.threw => Len(tx.raw) > 32767
    /\ ~tx.frame.threw =>
         /\ tx.frame.seq \in 0..255
         /\ \E k \in (0 - SeqSpan - 1)..(SeqSpan + 1) : tx.seq = 256 * k + tx.frame.seq
         /\ ParseInt2(SubSeq(tx.frame.bits, 57, 64)) = tx.frame.seq

C20_Witness ==
  /\ op = "buildFrameBitsV3"
  /\ tx.seq = 0 - 1
  /\ ~tx.frame.threw
  /\ tx.frame.seq = 255

(***************************************************************************)
(* C21. V3 wire layout: a frame returned by buildFrameBitsV3 is the          *)
(* preamble (32 bits), the V3 sync word (16), the header (32), the payload   *)
(* (8 * txBytes) and the CRC (16), in that order, 96 + 8 * txBytes bits in   *)
(* all; parseHeaderV3 of the header succeeds and returns the frame's seq,    *)
(* txBytes and compressed flag with every reserved flag bit 0; verifyCrc16   *)
(* of the header, the payload and the last 16 bits is true.                  *)
(***************************************************************************)
C21_Frame == tx.frame
C21_HeaderBits == SubSeq(C21_Frame.bits, 49, 80)
C21_PayloadBits == SubSeq(C21_Frame.bits, 81, 80 + 8 * C21_Frame.txBytes)
C21_CrcBits == SubSeq(C21_Frame.bits, Len(C21_Frame.bits) - 15, Len(C21_Frame.bits))

C21_WireLayoutV3 ==
  (op = "buildFrameBitsV3" /\ ~tx.frame.threw) =>
    /\ Len(C21_Frame.bits) = 96 + 8 * C21_Frame.txBytes
    /\ SubSeq(C21_Frame.bits, 1, 32) = PREAMBLE_BITS_V2
    /\ SubSeq(C21_Frame.bits, 33, 48) = SYNC_BITS_V3
    /\ C21_PayloadBits = C21_Frame.payloadBits
    /\ Len(C21_PayloadBits) = 8 * C21_Frame.txBytes
    /\ LET header == parseHeaderV3(C21_HeaderBits)
       IN /\ ~header.threw
          /\ header.seq = C21_Frame.seq
          /\ header.lenBytes = C21_Frame.txBytes
          /\ header.compressed = C21_Frame.compressed
          /\ \A i \in 51..55 : C21_Frame.bits[i] = 0
    /\ verifyCrc16(C21_HeaderBits, C21_PayloadBits, C21_CrcBits)

C21_Witness ==
  /\ op = "buildFrameBitsV3"
  /\ ~tx.frame.threw
  /\ tx.frame.compressed
  /\ tx.frame.seq = 19
  /\ tx.frame.txBytes > 0
  /\ Len(tx.frame.bits) = 96 + 8 * tx.frame.txBytes

(***************************************************************************)
(* C22. V2 wire layout: a frame returned by buildFrameBitsV2 is the          *)
(* preamble (32 bits), the V2 sync word (16), the 16-bit lenFlag and the     *)
(* payload (8 * txBytes), 64 + 8 * txBytes bits in all; bit 15 of lenFlag    *)
(* is the compressed flag and bits 14..0 are txBytes; parseLenFlagU16 of     *)
(* the field returns exactly {compressed, lenBytes: txBytes}.                *)
(***************************************************************************)
C22_LenFlagBits == SubSeq(tx.frame.bits, 49, 64)

C22_WireLayoutV2 ==
  (op = "buildFrameBitsV2" /\ ~tx.frame.threw) =>
    /\ Len(tx.frame.bits) = 64 + 8 * tx.frame.txBytes
    /\ SubSeq(tx.frame.bits, 1, 32) = PREAMBLE_BITS_V2
    /\ SubSeq(tx.frame.bits, 33, 48) = SYNC_BITS_V2
    /\ SubSeq(tx.frame.bits, 65, Len(tx.frame.bits)) = tx.frame.payloadBits
    /\ C22_LenFlagBits[1] = (IF tx.frame.compressed THEN 1 ELSE 0)
    /\ ParseInt2(SubSeq(C22_LenFlagBits, 2, 16)) = tx.frame.txBytes
    /\ parseLenFlagU16(C22_LenFlagBits)
         = [threw |-> FALSE, compressed |-> tx.frame.compressed,
            lenBytes |-> tx.frame.txBytes]

C22_Witness ==
  /\ op = "buildFrameBitsV2"
  /\ ~tx.frame.threw
  /\ tx.frame.compressed
  /\ tx.frame.txBytes > 0
  /\ Len(tx.frame.bits) = 64 + 8 * tx.frame.txBytes

(***************************************************************************)
(* C23. crc16CcittFalse is CRC-16/CCITT-FALSE: register initialised to       *)
(* 0xFFFF, polynomial 0x1021, message bits taken most significant first, no  *)
(* reflection and no final XOR; the register stays in 0..0xFFFF after every  *)
(* step; the CRC of the empty input is 0xFFFF; the CRC of a V3 frame covers  *)
(* the 4 header bytes followed by the payload bytes.                         *)
(***************************************************************************)
\* the CRC-16/CCITT-FALSE shift register fed one message bit
C23_RegisterStep(reg, bit) ==
  LET top == reg \div 32768
      shifted == (reg % 32768) * 2
  IN IF top # bit THEN BitXor(shifted, 4129) ELSE shifted

\* the register after message bits i..j, in order, from reg (reg is never negative:
\* the test makes TLC compute it before going on)
RECURSIVE C23_RegisterFrom(_, _, _, _)
C23_RegisterFrom(bits, i, j, reg) ==
  IF i > j \/ reg < 0 THEN reg
  ELSE IF i = j THEN C23_RegisterStep(reg, bits[i])
  ELSE C23_RegisterFrom(bits, ((i + j) \div 2) + 1, j,
                        C23_RegisterFrom(bits, i, (i + j) \div 2, reg))

\* the register after the first n message bits, from 0xFFFF
C23_Register(bits, n) == C23_RegisterFrom(bits, 1, n, 65535)

C23_Returned == crcLoop.pc = "returned"

C23_Frame == buildFrameBitsV3(tx.text, tx.seq, tx.deflated)

C23_Crc16CcittFalse ==
  /\ crcLoop.pc # "idle" => crcLoop.crc \in 0..65535
  /\ C23_Returned =>
       /\ crcLoop.crc
            = C23_Register(bytesToBitStream(crcLoop.data), 8 * Len(crcLoop.data))
       /\ crcLoop.crc = crc16CcittFalse(crcLoop.data)
       /\ crcLoop.data = <<>> => crcLoop.crc = 65535
       /\ crcLoop.data = CheckText => crcLoop.crc = 10673
       /\ tx.version = "v3" =>
            /\ SubSeq(crcLoop.data, 1, 4)
                 = bitStreamToBytes(SubSeq(C23_Frame.bits, 49, 80))
            /\ SubSeq(crcLoop.data, 5, Len(crcLoop.data))
                 = bitStreamToBytes(C23_Frame.payloadBits)
            /\ Len(crcLoop.data) = 4 + C23_Frame.txBytes
            /\ C23_Frame.crc16 = crcLoop.crc
            /\ u16ToBits(crcLoop.crc).bits
                 = SubSeq(C23_Frame.bits, Len(C23_Frame.bits) - 15, Len(C23_Frame.bits))

C23_Witness ==
  /\ C23_Returned
  /\ tx.version = "v3"
  /\ Len(crcLoop.data) = 8
  /\ crcLoop.crc = crc16CcittFalse(crcLoop.data)
  /\ crcLoop.crc # 65535

(***************************************************************************)
(* C24. Signal diagnosis: diagnoseSignal is a total function of rmsDb, snr   *)
(* and toneDeltaDb: no_input when rmsDb < -58; otherwise ambient_noise when  *)
(* snr < 1.2 and toneDeltaDb < 8; otherwise likely_fsk when snr >= 1.2 and   *)
(* toneDeltaDb >= 8; otherwise mismatch_freq_or_timing.  Exactly one label   *)
(* is returned, whatever the state of the decoder.                           *)
(***************************************************************************)
C24_Labels == {"no_input", "ambient_noise", "likely_fsk", "mismatch_freq_or_timing"}

\* the label by the four rules, levels and ratio in tenths
C24_Label(rmsDb, snr, toneDeltaDb) ==
  CASE rmsDb < 0 - 580 -> "no_input"
    [] rmsDb >= 0 - 580 /\ snr < 12 /\ toneDeltaDb < 80 -> "ambient_noise"
    [] rmsDb >= 0 - 580 /\ ~(snr < 12 /\ toneDeltaDb < 80)
         /\ snr >= 12 /\ toneDeltaDb >= 80 -> "likely_fsk"
    [] OTHER -> "mismatch_freq_or_timing"

C24_Diagnosis ==
  /\ diagnosis \in C24_Labels
  /\ metrics = NoMetrics => diagnosis = "no_input"
  /\ metrics # NoMetrics =>
       /\ diagnosis = C24_Label(metrics.rmsDb, metrics.snr, metrics.toneDeltaDb)
       /\ \A other \in [rmsDb : {metrics.rmsDb}, snr : {metrics.snr},
                        toneDeltaDb : {metrics.toneDeltaDb},
                        p0 : {0, metrics.p0}, p1 : {0, metrics.p1}] :
            diagnoseSignal(other) = diagnosis

C24_Witness ==
  /\ metrics # NoMetrics
  /\ metrics.rmsDb = 0 - 580
  /\ metrics.snr >= 12
  /\ metrics.toneDeltaDb < 80
  /\ diagnosis = "mismatch_freq_or_timing"
  /\ rxBits # <<>>

(***************************************************************************)
(* C25. Symbol decision by majority vote: the bit fed to the decoder for a   *)
(* symbol window is 1 exactly when at least two of the three sub-window      *)
(* decisions are 1, a sub-window decision being 1 exactly when the power at  *)
(* f1 exceeds the power at f0 on that sub-window (a tie counts as 0); one    *)
(* dissenting sub-window never changes the bit.                              *)
(***************************************************************************)
\* the sub-windows centred at 25%, 50% and 75% of the symbol, each half the window:
\* quarters 1-2, 2-3 and 3-4
C25_SubWindows(samples) ==
  <<SubSeq(samples, 1, 2), SubSeq(samples, 2, 3), SubSeq(samples, 3, 4)>>

C25_Decision(sub) == IF goertzelPower(sub, 1) > goertzelPower(sub, 0) THEN 1 ELSE 0

C25_Ones(samples) ==
  Cardinality({k \in 1..3 : C25_Decision(C25_SubWindows(samples)[k]) = 1})

C25_MajorityVote ==
  [][Len(rxBits') = Len(rxBits) + 1 =>
       rxBits'[Len(rxBits')] = (IF C25_Ones(td') >= 2 THEN 1 ELSE 0)]_vars

(***************************************************************************)
(* C26. Sampling cadence: a run of the receive loop feeds the decoder at     *)
(* most one bit, and only when at least one symbol period Ts has elapsed     *)
(* since the time reference; when k >= 1 whole periods have elapsed the      *)
(* reference advances by exactly k * Ts, so that after every fed bit         *)
(* 0 <= now - reference < Ts, however long the loop was delayed.             *)
(***************************************************************************)
C26_Fed == Len(rxBits') = Len(rxBits) + 1

C27_ExactPayloadConsumption ==
  LET N == tx.frame.txBytes
  IN /\ (tx.version = "v3" /\ pos \in (80 + 8 * N)..(95 + 8 * N)) =>
          /\ state.mode = "read_v3_crc"
          /\ state.payloadBits = tx.frame.payloadBits
          /\ Len(state.bits) = pos - (80 + 8 * N)
     /\ (tx.version = "v3" /\ pos = 96 + 8 * N) =>
          /\ event.kind = "frame"
          /\ Len(Frames) = 1
          /\ state.mode = "search_preamble"
     /\ (tx.version = "v2" /\ allowV2Fallback /\ pos = 64 + 8 * N) =>
          /\ event.kind = "frame"
          /\ Len(Frames) = 1
          /\ state.mode = "search_preamble"

(***************************************************************************)
(* C28. Restartable decoding: the bits of buildFrameBitsV3(T1, S1) followed  *)
(* at once by the bits of buildFrameBitsV3(T2, S2), fed to a fresh decoder,  *)
(* give exactly two frame events, (T1, S1) then (T2, S2), and end with       *)
(* okFrames = 2 and resyncCount = 0, for any texts and seqs.                 *)
(***************************************************************************)
C28_Restartable ==
  (before.kind = "frame" /\ AllFed) =>
    /\ Len(Frames) = 2
    /\ Frames[1].frame.text = before.text
    /\ Frames[1].frame.seq = before.seq
    /\ Frames[2].frame.text = tx.text
    /\ Frames[2].frame.seq = tx.seq
    /\ stats.okFrames = 2
    /\ stats.resyncCount = 0

(***************************************************************************)
(* C29. Frame acquisition inside a stream: for every finite bit string P     *)
(* that does not itself take the decoder out of search_preamble, feeding P   *)
(* and then the bits of a valid V3 frame to a fresh decoder gives a frame    *)
(* event with that frame's text and seq.                                     *)
(***************************************************************************)
C29_Acquisition ==
  (before.kind = "noise" /\ AllFed) =>
    \E k \in 1..Len(Frames) :
      /\ Frames[k].frame.text = tx.text
      /\ Frames[k].frame.seq = tx.seq

(***************************************************************************)
(* C30. Mode transition graph: one consumeBit step keeps the mode or changes *)
(* it along one of these edges: search_preamble -> search_sync;              *)
(* search_sync -> read_v3_header or read_v2_len; read_v3_header ->           *)
(* read_v3_payload or search_preamble; read_v3_payload -> read_v3_crc;       *)
(* read_v3_crc -> search_preamble; read_v2_len -> read_v2_payload or         *)
(* search_preamble; read_v2_payload -> search_preamble.  search_sync is left *)
(* only by a sync match, never back to search_preamble, and a V3 payload is  *)
(* decoded only in read_v3_crc.                                              *)
(***************************************************************************)
C30_Edges ==
  {<<"search_preamble", "search_sync">>,
   <<"search_sync", "read_v3_header">>, <<"search_sync", "read_v2_len">>,
   <<"read_v3_header", "read_v3_payload">>, <<"read_v3_header", "search_preamble">>,
   <<"read_v3_payload", "read_v3_crc">>,
   <<"read_v3_crc", "search_preamble">>,
   <<"read_v2_len", "read_v2_payload">>, <<"read_v2_len", "search_preamble">>,
   <<"read_v2_payload", "search_preamble">>}

C30_ModeGraph ==
  [][op' = "consumeBit" =>
       /\ state'.mode = state.mode \/ <<state.mode, state'.mode>> \in C30_Edges
       /\ (state.mode = "search_sync" /\ state'.mode # "search_sync") =>
            /\ event'.kind = "status"
            /\ event'.message \in {"sync v3 ok", "sync v2 ok"}
            /\ event'.err <= SYNC_MAX_ERRORS
       /\ (event'.kind = "frame" /\ event'.frame.version = "v3") =>
            state.mode = "read_v3_crc"
       /\ decodeCalls' # decodeCalls =>
            state.mode \in {"read_v3_crc", "read_v2_payload"}]_vars

C30_Witness ==
  /\ op = "consumeBit"
  /\ event.kind = "error"
  /\ event.code = "len_invalid"
  /\ state.mode = "search_preamble"
  /\ tx.version = "v3"
  /\ pos = 80
  /\ flipped # {}

(***************************************************************************)
(* C31. The inversion flag is per-attempt state: it is set only on the step  *)
(* from search_preamble to search_sync, keeps its value through sync,        *)
(* header or length, payload and CRC reading of that attempt, and does not   *)
(* exist once the decoder is back in search_preamble; the polarity of the    *)
(* next preamble lock depends on the 32-bit window only.                     *)
(***************************************************************************)
\* the preamble window after the bit of this step
C31_Window == SliceLast(state.window \o <<rawBit'>>, 32)

C31_InvertPerAttempt ==
  [][op' = "consumeBit" =>
       /\ state'.mode = "search_preamble" => DOMAIN state' = {"mode", "window"}
       /\ state'.mode # "search_preamble" => "invert" \in DOMAIN state'
       /\ (state.mode # "search_preamble" /\ state'.mode # "search_preamble") =>
            state'.invert = state.invert
       /\ (state.mode # "search_preamble" /\ state'.mode = "search_preamble") =>
            state'.window = <<>>
       /\ (state.mode = "search_preamble" /\ state'.mode # "search_preamble") =>
            /\ state'.mode = "search_sync"
            /\ state'.invert = (countMatches(C31_Window, MapFlip(PREAMBLE_BITS_V2))
                                  > countMatches(C31_Window, PREAMBLE_BITS_V2))]_vars

\* a second attempt of normal polarity after a frame decoded from an inverted line
C31_Witness ==
  /\ before.kind = "inverted_frame"
  /\ stats.okFrames = 1
  /\ pos > Len(before.bits)
  /\ state.mode = "read_v3_payload"
  /\ ~state.invert

(***************************************************************************)
(* Frames of another sender: well-formed V2 and V3 frames whose payload is   *)
(* not what this encoder produces (bytes that are no deflate stream, bytes   *)
(* that are no UTF-8), the V3 ones with a matching CRC.                      *)
(***************************************************************************)
\* deflateRaw of the empty input
DeflatedEmpty == <<3, 0>>

\* one byte that is neither a deflate stream nor UTF-8
ForeignPayloads == {<<255>>}

ForeignFrameBits(version, payload, compressed, seq) ==
  LET payloadBits == bytesToBitStream(payload)
      header == buildHeaderV3Bits(compressed, seq, Len(payload)).bits
      lenFlag == BitOr(IF compressed THEN LEN_FLAG_MASK ELSE 0, Len(payload))
  IN IF version = "v3"
     THEN PREAMBLE_BITS_V2 \o SYNC_BITS_V3 \o header \o payloadBits
            \o calculateV3Crc16Bits(header, payloadBits).bits
     ELSE PREAMBLE_BITS_V2 \o SYNC_BITS_V2 \o u16ToBits(lenFlag).bits \o payloadBits

ForeignTransmission(version, payload, compressed, seq, inverted) ==
  [version |-> version, text |-> <<>>, seq |-> seq, inverted |-> inverted,
   raw |-> <<>>, deflated |-> DeflatedEmpty,
   frame |-> [threw |-> FALSE, version |-> version,
              bits |-> ForeignFrameBits(version, payload, compressed, seq),
              payloadBits |-> bytesToBitStream(payload), compressed |-> compressed,
              txBytes |-> Len(payload)]]

ForeignTransmissions ==
  {ForeignTransmission("v3", p, c, 19, FALSE) : p \in ForeignPayloads, c \in BOOLEAN}
    \cup {ForeignTransmission("v2", p, c, SEQ_NULL, FALSE) :
            p \in ForeignPayloads, c \in BOOLEAN}

InitForeign == InitWith(ForeignTransmissions)
NextForeign == Feed \/ FeedFlipped
SpecForeign == InitForeign /\ [][NextForeign]_vars

(***************************************************************************)
(* C32. Decode failure and its ordering: when the payload is flagged         *)
(* compressed and inflate fails, a V2 frame yields the error decode_fail on  *)
(* its last payload bit and a V3 frame yields decode_fail on its last CRC    *)
(* bit only if the CRC matched; a V3 frame whose CRC does not match yields   *)
(* crc_fail and never decode_fail.  Each time the counter of the error and   *)
(* resyncCount grow by exactly 1, okFrames is unchanged and no frame event   *)
(* is emitted.                                                               *)
(***************************************************************************)
\* the bit the state machine sees in this step
C32_Bit == IF state.invert THEN flipBit(rawBit') ELSE rawBit'

\* this step reads the last CRC bit of a V3 frame / the last payload bit of a V2 frame
C32_LastCrcBit == state.mode = "read_v3_crc" /\ Len(state.bits) = 15
C32_LastPayloadBitV2 ==
  state.mode = "read_v2_payload" /\ Len(state.bits) + 1 >= state.lenBytes * 8

C32_CrcMatches == verifyCrc16(state.headerBits, state.payloadBits, state.bits \o <<C32_Bit>>)

\* the payload bytes handed to inflateRaw in this step
C32_PayloadBytes ==
  IF state.mode = "read_v3_crc" THEN bitStreamToBytes(state.payloadBits)
  ELSE bitStreamToBytes(Slice(state.bits \o <<C32_Bit>>, 0, state.lenBytes * 8))

\* what consumeBit returns in this step when inflateRaw throws
C32_WhenInflateThrows ==
  consumeBit(state, stats, allowV2Fallback, rawBit',
             [raw |-> OnLine.raw, deflated |-> OnLine.deflated, other |-> Threw])

\* the outcome is the error `code`, counted once, and nothing else
C32_Fails(out, code, counter) ==
  /\ out.event.kind = "error"
  /\ out.event.code = code
  /\ out.stats = [stats EXCEPT ![counter] = @ + 1, !.resyncCount = @ + 1,
                               !.lastError = code]
  /\ out.stats.okFrames = stats.okFrames

C32_Step == [state |-> state', stats |-> stats', event |-> event']

C32_DecodeFailure ==
  [][op' = "consumeBit" =>
       /\ (C32_LastCrcBit /\ ~C32_CrcMatches) =>
            /\ C32_Fails(C32_Step, "crc_fail", "crcFail")
            /\ C32_Fails(C32_WhenInflateThrows, "crc_fail", "crcFail")
            /\ log' = Append(log, event')
       /\ (C32_LastCrcBit /\ C32_CrcMatches /\ state.compressed
             /\ C32_PayloadBytes # OnLine.deflated) =>
            /\ C32_Fails(C32_WhenInflateThrows, "decode_fail", "decodeFail")
            /\ event'.kind # "frame" =>
                 C32_Fails(C32_Step, "decode_fail", "decodeFail") /\ log' = Append(log, event')
       /\ (C32_LastPayloadBitV2 /\ state.compressed /\ C32_PayloadBytes # OnLine.deflated) =>
            /\ C32_Fails(C32_WhenInflateThrows, "decode_fail", "decodeFail")
            /\ event'.kind # "frame" =>
                 C32_Fails(C32_Step, "decode_fail", "decodeFail") /\ log' = Append(log, event')
       /\ (event'.kind = "error" /\ event'.code = "decode_fail") =>
            \/ C32_LastPayloadBitV2
            \/ C32_LastCrcBit /\ C32_CrcMatches]_vars

\* a V3 frame flagged compressed with a matching CRC whose payload does not inflate
C32_Witness ==
  /\ op = "consumeBit"
  /\ tx.version = "v3"
  /\ tx.frame.compressed
  /\ flipped = {}
  /\ pos = Len(tape)
  /\ event.kind = "error"
  /\ event.code = "decode_fail"
  /\ stats.decodeFail = 1
  /\ stats.resyncCount = 1
  /\ stats.crcFail = 0
  /\ stats.okFrames = 0
  /\ Frames = <<>>

(***************************************************************************)
(* C33. Invalid UTF-8 is rejected: when a frame completes (V2 at the last    *)
(* payload bit, V3 after a matching CRC) and its payload bytes, after the    *)
(* optional inflate, are not a valid UTF-8 encoding, the decoder emits the   *)
(* error decode_fail, increments decodeFail and resyncCount, and emits no    *)
(* frame event.                                                              *)
(***************************************************************************)
\* bytes that occur in no UTF-8 encoding: a sequence holding one is not valid UTF-8
C33_NeverUtf8 == {192, 193} \cup (245..255)
C33_Invalid(bytes) == \E i \in 1..Len(bytes) : bytes[i] \in C33_NeverUtf8

\* this step completes a frame
C33_Completes == C32_LastPayloadBitV2 \/ (C32_LastCrcBit /\ C32_CrcMatches)

C33_Zlib(other) == [raw |-> OnLine.raw, deflated |-> OnLine.deflated, other |-> other]

C33_InvalidUtf8Rejected ==
  [][(op' = "consumeBit" /\ C33_Completes) =>
       /\ (~state.compressed /\ C33_Invalid(C32_PayloadBytes)) =>
            /\ C32_Fails(C32_Step, "decode_fail", "decodeFail")
            /\ Frames' = Frames
       /\ \A other \in InflateOutcomes :
            LET inflated == inflateRaw(C32_PayloadBytes, C33_Zlib(other)) IN
            (state.compressed /\ ~inflated.threw /\ C33_Invalid(inflated.data)) =>
              C32_Fails(consumeBit(state, stats, allowV2Fallback, rawBit', C33_Zlib(other)),
                        "decode_fail", "decodeFail")]_vars

(***************************************************************************)
(* C34. No hang after sync: once the decoder has left search_sync for a      *)
(* header or length state it is back in search_preamble after a bounded      *)
(* number of further input bits, whatever their values: at most              *)
(* 32 + 8*L + 16 bits for V3 and 16 + 8*L bits for V2, L being the length    *)
(* declared by the received header.                                          *)
(***************************************************************************)
C34_ReadModes ==
  {"read_v3_header", "read_v3_payload", "read_v3_crc", "read_v2_len", "read_v2_payload"}

\* the sync word of the frame on the line ends here: flips come after it only
C34_SyncEnd == Len(PREAMBLE_BITS_V2) + Len(SYNC_BITS_V3)

\* the bound of the claim for the attempt in state st (the length is declared once
\* the header or the length field has been read)
C34_Bound(st) ==
  CASE st.mode = "read_v3_header" -> 32
    [] st.mode = "read_v2_len" -> 16
    [] st.mode = "read_v3_payload" -> 32 + 8 * st.lenBytes + 16
    [] st.mode = "read_v3_crc" -> 32 + 8 * ParseInt2(SubSeq(st.headerBits, 17, 32)) + 16
    [] st.mode = "read_v2_payload" -> 16 + 8 * st.lenBytes

C34_NoHang ==
  [][op' = "consumeBit" =>
       /\ (state.mode = "search_sync" /\ state'.mode \in C34_ReadModes) =>
            pos' = C34_SyncEnd
       /\ state'.mode \in C34_ReadModes => pos' - C34_SyncEnd < C34_Bound(state')]_vars

(***************************************************************************)
(* verifyCrc16 called on its own, as the protocol test "detects crc mismatch *)
(* after tampering" does: the header, payload and CRC bits are sliced from a *)
(* frame of buildFrameBitsV3, one bit of them is flipped or the CRC string   *)
(* is given another length, and verifyCrc16 is applied.                      *)
(***************************************************************************)
\* const frame = buildFrameBitsV3("crc guard", 33)
CrcGuardText == <<99, 114, 99, 32, 103, 117, 97, 114, 100>>

VerifyRequests ==
  {Transmission("v3", q[1], 19, q[2], FALSE) : q \in Pairs(TextsUpTo(1)) \cup NoisyPairs}
    \cup {Transmission("v3", CrcGuardText, 33, c, FALSE) :
            c \in Candidates(TextEncode(CrcGuardText))}

\* lengths of the CRC string handed to verifyCrc16
CrcStringLens == {0, 15, 16, 17}

InitVerify ==
  /\ options = "undefined"
  /\ allowV2Fallback = NewAllowV2Fallback(options)
  /\ state = InitialState
  /\ stats = InitialStats
  /\ op = "new"
  /\ rawBit = 0
  /\ event = NullEvent
  /\ log = <<>>
  /\ decodeCalls = 0
  /\ tx \in VerifyRequests
  /\ tape = tx.frame.bits
  /\ pos = 0
  /\ flipped = {}
  /\ resets = 0
  /\ before = NothingBefore
  /\ crcLoop = NoCrcLoop
  /\ PageMounted

\* the frame with the bits at the positions in `at` flipped
Tampered(bits, at) == [i \in 1..Len(bits) |-> IF i \in at THEN flipBit(bits[i]) ELSE bits[i]]

\* a CRC string of n bits made from the 16 CRC bits
CrcString(crcBits, n) == IF n <= 16 THEN Slice(crcBits, 0, n) ELSE crcBits \o Repeat(<<0>>, n - 16)

\* the slices of the test, then verifyCrc16(headerBits, payloadBits, crcBits)
VerifyCrc ==
  /\ op = "new"
  /\ \E at \in {{}} \cup {{i} : i \in (Len(PREAMBLE_BITS_V2) + Len(SYNC_BITS_V3) + 1)..Len(tape)},
        n \in CrcStringLens :
       LET bits == Tampered(tape, at)
           headerStart == Len(PREAMBLE_BITS_V2) + Len(SYNC_BITS_V3)
           payloadStart == headerStart + 32
           payloadEnd == payloadStart + tx.frame.txBytes * 8
           headerBits == Slice(bits, headerStart, headerStart + 32)
           payloadBits == Slice(bits, payloadStart, payloadEnd)
           crcBits == CrcString(Slice(bits, payloadEnd, payloadEnd + 16), n)
       IN /\ flipped' = at
          /\ event' = [kind |-> "verified", crcLen |-> Len(crcBits),
                       ok |-> verifyCrc16(headerBits, payloadBits, crcBits)]
  /\ op' = "verifyCrc16"
  /\ UNCHANGED <<options, allowV2Fallback, state, stats, rawBit, log, decodeCalls, tx, tape,
                 pos, resets, before, crcLoop, pageVars>>

NextVerify == VerifyCrc
SpecVerify == InitVerify /\ [][NextVerify]_vars

(***************************************************************************)
(* C35. verifyCrc16 detects every single-bit error: for every header,        *)
(* payload and CRC triple taken from a frame built by buildFrameBitsV3,      *)
(* flipping exactly one bit of the header, of the payload or of the CRC      *)
(* makes verifyCrc16 return false; it also returns false whenever the CRC    *)
(* bit string is not exactly 16 bits long.                                   *)
(***************************************************************************)
C35_SingleBitErrors ==
  op = "verifyCrc16" =>
    /\ (flipped # {} \/ event.crcLen # 16) => ~event.ok
    /\ (flipped = {} /\ event.crcLen = 16) => event.ok

\* one flipped bit in the header, in the payload and in the CRC of the test's frame
C35_InHeader == \E i \in flipped : i \in 49..80
C35_InPayload == \E i \in flipped : i \in 81..(Len(tape) - 16)
C35_InCrc == \E i \in flipped : i > Len(tape) - 16

C35_Witness ==
  /\ op = "verifyCrc16"
  /\ tx.text = CrcGuardText
  /\ C35_InHeader
  /\ event.crcLen = 16
  /\ ~event.ok

(***************************************************************************)
(* The decoder on the last bit of a V2 length field: it has locked on the    *)
(* preamble and the V2 sync word and has read 15 bits of the length field,   *)
(* of any values; the sixteenth bit arrives.                                 *)
(***************************************************************************)
InitLen ==
  /\ options = "true"
  /\ allowV2Fallback = NewAllowV2Fallback(options)
  /\ \E lenFlag \in 0..65535 :
       /\ tape = PREAMBLE_BITS_V2 \o SYNC_BITS_V2 \o u16ToBits(lenFlag).bits
       /\ tx = [version |-> "v2", lenFlag |-> lenFlag, raw |-> <<>>,
                deflated |-> DeflatedEmpty]
  /\ pos = Len(tape) - 1
  /\ state = [mode |-> "read_v2_len", bits |-> SubSeq(tape, 49, 63), invert |-> FALSE]
  /\ stats = InitialStats
  /\ op = "consumeBit"
  /\ rawBit = tape[63]
  /\ event = NullEvent
  /\ log = <<>>
  /\ decodeCalls = 0
  /\ flipped = {}
  /\ resets = 0
  /\ before = NothingBefore
  /\ crcLoop = NoCrcLoop
  /\ PageMounted

SpecLen == InitLen /\ [][Next]_vars

(***************************************************************************)
(* C36. The V2 length field can never be invalid: in read_v2_len every one   *)
(* of the 65536 values of the 16-bit lenFlag leads to the V2 payload state   *)
(* with lenBytes = value mod 32768 and compressed = bit 15; the error        *)
(* len_invalid is never produced from a V2 length field, so lenInvalid only  *)
(* counts V3 headers.                                                        *)
(***************************************************************************)
\* the value of the length field completed by the bit of this step
C36_LenFlag == ParseInt2(state.bits \o <<C32_Bit>>)

C36_LenNeverInvalid ==
  [][op' = "consumeBit" =>
       /\ (state.mode = "read_v2_len" /\ Len(state.bits) = 15) =>
            /\ state' = [mode |-> "read_v2_payload", lenBytes |-> C36_LenFlag % 32768,
                         compressed |-> (C36_LenFlag \div 32768 = 1), bits |-> <<>>,
                         invert |-> state.invert]
            /\ state'.lenBytes \in 0..32767
            /\ stats' = stats
            /\ event'.kind = "status"
       /\ (event'.kind = "error" /\ event'.code = "len_invalid") =>
            state.mode = "read_v3_header"
       /\ stats'.lenInvalid # stats.lenInvalid => state.mode = "read_v3_header"]_vars

\* the largest length field: the flag and the length 32767
C36_Witness ==
  /\ op = "consumeBit"
  /\ pos = 64
  /\ SubSeq(tape, 49, 64) = Repeat(<<1>>, 16)
  /\ state.mode = "read_v2_payload"
  /\ state.lenBytes = 32767
  /\ state.compressed
  /\ stats.lenInvalid = 0

(***************************************************************************)
(* The decoder on the first full sync window: it has locked on the preamble  *)
(* and has read 15 further bits, of any values; the sixteenth arrives.       *)
(***************************************************************************)
InitSync ==
  /\ options \in {"undefined", "true"}
  /\ allowV2Fallback = NewAllowV2Fallback(options)
  /\ \E window \in 0..65535 :
       /\ tape = PREAMBLE_BITS_V2 \o u16ToBits(window).bits
       /\ tx = [version |-> "none", window |-> window, raw |-> <<>>,
                deflated |-> DeflatedEmpty]
  /\ pos = Len(tape) - 1
  /\ state = [mode |-> "search_sync", window |-> SubSeq(tape, 33, 47), invert |-> FALSE]
  /\ stats = InitialStats
  /\ op = "consumeBit"
  /\ rawBit = tape[47]
  /\ event = NullEvent
  /\ log = <<>>
  /\ decodeCalls = 0
  /\ flipped = {}
  /\ resets = 0
  /\ before = NothingBefore
  /\ crcLoop = NoCrcLoop
  /\ PageMounted

SpecSync == InitSync /\ [][Next]_vars

(***************************************************************************)
(* C37. Sync patterns are never ambiguous: no 16-bit window is within the    *)
(* accepted distance of both the V3 and the V2 sync pattern (the patterns    *)
(* are 8 bits apart), so with fallback enabled every window selects at most  *)
(* one version and the prefer-V3 rule never arbitrates; the version chosen   *)
(* depends only on the window content and the fallback option.               *)
(***************************************************************************)
\* the sync window after the bit of this step
C37_Window == SliceLast(state.window \o <<C32_Bit>>, 16)

C37_NearV3 == hammingDistance(C37_Window, SYNC_BITS_V3) <= SYNC_MAX_ERRORS
C37_NearV2 == hammingDistance(C37_Window, SYNC_BITS_V2) <= SYNC_MAX_ERRORS

C37_Unambiguous ==
  [][(op' = "consumeBit" /\ state.mode = "search_sync") =>
       /\ hammingDistance(SYNC_BITS_V3, SYNC_BITS_V2) = 8
       /\ ~(C37_NearV3 /\ C37_NearV2)
       /\ state'.mode = "read_v3_header" <=> C37_NearV3
       /\ state'.mode = "read_v2_len" <=> (allowV2Fallback /\ C37_NearV2)
       /\ state'.mode \in {"search_sync", "read_v3_header", "read_v2_len"}]_vars

\* a window three bits from the V2 sync word, five from the V3 one, taken as V2
C37_Witness ==
  /\ op = "consumeBit"
  /\ pos = 48
  /\ allowV2Fallback
  /\ hammingDistance(SubSeq(tape, 33, 48), SYNC_BITS_V2) = 3
  /\ hammingDistance(SubSeq(tape, 33, 48), SYNC_BITS_V3) = 5
  /\ state.mode = "read_v2_len"

(***************************************************************************)
(* C38. reset() effect: from every reachable state reset() puts the decoder  *)
(* in search_preamble with an empty window (a partially read frame and its   *)
(* inversion flag are discarded) and leaves okFrames, crcFail, lenInvalid,   *)
(* decodeFail, syncLost, resyncCount, lastError and the fallback option      *)
(* unchanged; reset() emits no event and is idempotent.                      *)
(***************************************************************************)
C38_ResetEffect ==
  [][op' = "reset" =>
       /\ state' = [mode |-> "search_preamble", window |-> <<>>]
       /\ DOMAIN state' = {"mode", "window"}
       /\ stats' = stats
       /\ allowV2Fallback' = allowV2Fallback
       /\ event' = NullEvent
       /\ log' = log
       /\ (state = [mode |-> "search_preamble", window |-> <<>>]) => state' = state]_vars

\* reset() called after an error was counted, in the middle of the frame
C38_Witness ==
  /\ op = "reset"
  /\ state = InitialState
  /\ stats.resyncCount = 1
  /\ stats.lastError # "null"
  /\ pos < Len(tape)

(***************************************************************************)
(* C39. Stats consistency: in every state reachable by consumeBit and reset  *)
(* calls, resyncCount = crcFail + lenInvalid + decodeFail + syncLost;        *)
(* lastError is null exactly when resyncCount = 0; and when lastError is not *)
(* null the counter that corresponds to it is at least 1.                    *)
(***************************************************************************)
\* the counter of an error code
C39_CounterOf(code) ==
  CASE code = "crc_fail" -> stats.crcFail
    [] code = "len_invalid" -> stats.lenInvalid
    [] code = "decode_fail" -> stats.decodeFail
    [] code = "sync_lost" -> stats.syncLost

C39_StatsConsistency ==
  /\ stats.resyncCount
       = stats.crcFail + stats.lenInvalid + stats.decodeFail + stats.syncLost
  /\ stats.lastError = "null" <=> stats.resyncCount = 0
  /\ stats.lastError # "null" =>
       /\ stats.lastError \in {"crc_fail", "len_invalid", "decode_fail", "sync_lost"}
       /\ C39_CounterOf(stats.lastError) >= 1

\* an error was counted and reset() was called afterwards
C39_Witness ==
  /\ op = "reset"
  /\ stats.resyncCount = 1
  /\ stats.lenInvalid = 1
  /\ stats.lastError = "len_invalid"

(***************************************************************************)
(* C40. The encoded payload never grows: for every text and every compressor *)
(* result the frame returned by buildFrameBitsV2 or buildFrameBitsV3 has     *)
(* txBytes <= rawBytes, with txBytes < rawBytes - 2 when compressed and      *)
(* txBytes = rawBytes when not; therefore the "encoded payload too large"    *)
(* check never fires once the raw length check has passed.                   *)
(***************************************************************************)
C40_PayloadNeverGrows ==
  op \in {"buildFrameBitsV2", "buildFrameBitsV3"} =>
    /\ tx.frame.threw <=> Len(tx.raw) > 32767
    /\ Len(tx.raw) <= 32767 => Len(pickPayload(tx.raw, tx.deflated).payload) <= 32767
    /\ ~tx.frame.threw =>
         /\ tx.frame.rawBytes = Len(tx.raw)
         /\ tx.frame.txBytes <= tx.frame.rawBytes
         /\ tx.frame.compressed => tx.frame.txBytes < tx.frame.rawBytes - 2
         /\ ~tx.frame.compressed => tx.frame.txBytes = tx.frame.rawBytes

\* a compressed payload at the smallest gain the encoder accepts, three bytes
C40_Witness ==
  /\ op = "buildFrameBitsV3"
  /\ ~tx.frame.threw
  /\ tx.frame.compressed
  /\ tx.frame.rawBytes = 24
  /\ tx.frame.txBytes = tx.frame.rawBytes - 3

====
